---- MODULE Spec2Model ----
(***************************************************************************)
(* The TaskScheduler Durable Object of src/src/task_scheduler_do.ts as a   *)
(* state machine: durable storage (task records, the id index, the event   *)
(* log, last-run markers), the instance's in-memory alarm bookkeeping      *)
(* (_pendingAlarmIso, _lastAlarmIso, _localTimers), the platform's durable *)
(* alarm, and one action per request handler / wake.                       *)
(*                                                                         *)
(* Time is in milliseconds, as in the source.  An ISO timestamp string is  *)
(* a record [fmt, ms]: fmt "iso" is the normalised form Date.toISOString   *)
(* produces, "alt" another spelling of the same instant that Date.parse    *)
(* accepts, "bad" a string Date.parse maps to NaN, "absent" a missing      *)
(* (undefined / null) value.  A cron expression is a sequence of           *)
(* one-character strings.                                                  *)
(***************************************************************************)
EXTENDS Integers, Sequences, FiniteSets, TLC

VARIABLES
    now,          \* the wall clock, Date.now()
    uuid,         \* number of crypto.randomUUID() values handed out
    tasks,        \* storage "task:<id>"         : id -> Task
    index,        \* storage "__index"           : sequence of ids
    events,       \* storage "__events"          : sequence of TaskEvent
    lastRun,      \* storage "task:<id>:lastRun" : id -> ISO timestamp
    pending,      \* this._pendingAlarmIso
    lastFired,    \* this._lastAlarmIso
    durableAlarm, \* the platform's alarm for this object (ms), or NoAlarm
    localTimers,  \* this._localTimers: fire times (ms) of the setTimeout timers
    microtasks,   \* alarm() calls queued by queueMicrotask and not yet run
    ticks,        \* number of clock advances so far
    restarts,     \* number of cold starts so far
    allEvents,    \* history: every event ever handed to appendEvents, in order
    last          \* the operation just performed, its input and its response

vars == <<now, uuid, tasks, index, events, lastRun, pending, lastFired,
          durableAlarm, localTimers, microtasks, ticks, restarts, allEvents, last>>

storageVars == <<tasks, index, events, lastRun>>
wakeVars == <<pending, lastFired, durableAlarm, localTimers, microtasks>>

----------------------------------------------------------------------------
(* Bounds of the model *)

MaxTasks == 2
MaxTicks == 2
MaxRestarts == 1

(* Program constants *)

EVENT_HISTORY_LIMIT == 120
JITTER_MS == 50
TOLERANCE_MS == 250
MIN_FUTURE_MS == 25
ADJUST_MS == 500
MINUTE_MS == 60000

(* NaN: what Date.parse returns for an unparsable string.  Every instant   *)
(* of the model is >= 0.                                                   *)
NaN == -1
(* earliest === null in alarm() *)
NoEarliest == -2
(* no durable alarm is set *)
NoAlarm == -3

----------------------------------------------------------------------------
(* ISO timestamp strings *)

Absent == [fmt |-> "absent", ms |-> NaN]
BadIso == [fmt |-> "bad", ms |-> NaN]

\* new Date(ms).toISOString()
toISOString(ms) == [fmt |-> "iso", ms |-> ms]

\* another spelling of the same instant (for example without milliseconds)
AltIso(ms) == [fmt |-> "alt", ms |-> ms]

\* Date.parse(s)
DateParse(s) == IF s.fmt \in {"iso", "alt"} THEN s.ms ELSE NaN

isNaN(x) == x = NaN

\* JavaScript truthiness of an optional string: undefined and null are falsy
Truthy(s) == s.fmt # "absent"

----------------------------------------------------------------------------
(* Cron expressions: sequences of characters *)

Digits == {"0", "1", "2", "3", "4", "5", "6", "7", "8", "9"}
Whitespace == {" ", "\t", "\n"}

DigitValue(c) ==
    CASE c = "0" -> 0 [] c = "1" -> 1 [] c = "2" -> 2 [] c = "3" -> 3
      [] c = "4" -> 4 [] c = "5" -> 5 [] c = "6" -> 6 [] c = "7" -> 7
      [] c = "8" -> 8 [] c = "9" -> 9

RECURSIVE TrimStart(_)
TrimStart(s) ==
    IF s # <<>> /\ Head(s) \in Whitespace THEN TrimStart(Tail(s)) ELSE s

RECURSIVE TrimEnd(_)
TrimEnd(s) ==
    IF s # <<>> /\ s[Len(s)] \in Whitespace
    THEN TrimEnd(SubSeq(s, 1, Len(s) - 1))
    ELSE s

\* String.prototype.trim
Trim(s) == TrimEnd(TrimStart(s))

\* length of the longest prefix of s made of digits: what (\d+) consumes
RECURSIVE DigitRun(_)
DigitRun(s) ==
    IF s # <<>> /\ Head(s) \in Digits THEN 1 + DigitRun(Tail(s)) ELSE 0

\* Number(m[1]) for a string of decimal digits
RECURSIVE ToNumber(_)
ToNumber(ds) ==
    IF ds = <<>> THEN 0
    ELSE 10 * ToNumber(SubSeq(ds, 1, Len(ds) - 1)) + DigitValue(ds[Len(ds)])

CronTail == <<" ", "*", " ", "*", " ", "*", " ", "*">>

\* expr.trim().match(/^\*\/(\d+) \* \* \* \*$/): the captured digits, or <<>>
\* when the expression does not match
CronMatch(expr) ==
    LET t == Trim(expr)
        rest == SubSeq(t, 3, Len(t))
        k == DigitRun(rest)
    IN  IF /\ Len(t) >= 3
           /\ t[1] = "*"
           /\ t[2] = "/"
           /\ k >= 1
           /\ SubSeq(rest, k + 1, Len(rest)) = CronTail
        THEN SubSeq(rest, 1, k)
        ELSE <<>>

\* computeNextFromSimpleCron with the test n < 0 in place of n <= 0
computeNextFromSimpleCron_AcceptsZero(expr, from) ==
    LET m == CronMatch(expr)
    IN  IF m = <<>> THEN NaN
        ELSE LET n == ToNumber(m)
             IN  IF n < 0 THEN NaN ELSE from + n * MINUTE_MS

\* computeNextFromSimpleCron(expr, from): from + N minutes (ms), or NaN for
\* the null result
computeNextFromSimpleCron(expr, from) ==
    LET m == CronMatch(expr)
    IN  IF m = <<>> THEN NaN
        ELSE LET n == ToNumber(m)
             IN  IF n <= 0 THEN NaN ELSE from + n * MINUTE_MS

EveryMinute == <<"*", "/", "1", " ", "*", " ", "*", " ", "*", " ", "*">>
EveryMinutePadded == <<" ">> \o EveryMinute \o <<" ">>
EveryZero == <<"*", "/", "0", " ", "*", " ", "*", " ", "*", " ", "*">>
Wildcard == <<"*", " ", "*", " ", "*", " ", "*", " ", "*">>

----------------------------------------------------------------------------
(* AlarmScheduler: scheduleAlarm on the in-memory bookkeeping and the      *)
(* platform's alarm.  w is the record [pending, lastFired, durableAlarm,   *)
(* localTimers, microtasks]; nowA is the clock read at line 29, nowB the   *)
(* one at line 65; facility is what state.setAlarm does on this call:      *)
(* "ok", "throws", or "absent" (typeof setAlarm is not "function").        *)

Facilities == {"ok", "throws", "absent"}

\* scheduleAlarm that records the pending timestamp only once setAlarm has
\* succeeded (line 50 moved behind line 54)
scheduleAlarm_PendingOnlyWhenDurable(w, date, nowA, nowB, facility) ==
    LET iso == toISOString(date)
        existing == DateParse(w.pending)
        armed == [w EXCEPT !.pending = iso]
        delay == date - nowB
    IN  IF date <= nowA + JITTER_MS THEN w
        ELSE IF Truthy(w.pending) /\ ~isNaN(existing) /\ existing <= date THEN w
        ELSE IF w.lastFired = iso THEN w
        ELSE IF facility = "ok" THEN [armed EXCEPT !.durableAlarm = date]
        ELSE IF delay <= 0
             THEN IF w.lastFired # iso
                  THEN [w EXCEPT !.microtasks = @ + 1]
                  ELSE w
             ELSE [w EXCEPT !.localTimers = <<nowB + delay>>]

\* scheduleAlarm without the clearTimeout loop of lines 79-82
scheduleAlarm_KeepsTimers(w, date, nowA, nowB, facility) ==
    LET iso == toISOString(date)
        existing == DateParse(w.pending)
        armed == [w EXCEPT !.pending = iso]
        delay == date - nowB
    IN  IF date <= nowA + JITTER_MS THEN w
        ELSE IF Truthy(w.pending) /\ ~isNaN(existing) /\ existing <= date THEN w
        ELSE IF w.lastFired = iso THEN w
        ELSE IF facility = "ok" THEN [armed EXCEPT !.durableAlarm = date]
        ELSE IF delay <= 0
             THEN IF armed.lastFired # iso
                  THEN [armed EXCEPT !.microtasks = @ + 1]
                  ELSE armed
             ELSE [armed EXCEPT !.localTimers = Append(@, nowB + delay)]

\* scheduleAlarm without the test of line 46 against the timestamp last fired
scheduleAlarm_NoLastFiredTest(w, date, nowA, nowB, facility) ==
    LET iso == toISOString(date)
        existing == DateParse(w.pending)
        armed == [w EXCEPT !.pending = iso]
        delay == date - nowB
    IN  IF date <= nowA + JITTER_MS THEN w
        ELSE IF Truthy(w.pending) /\ ~isNaN(existing) /\ existing <= date THEN w
        ELSE IF facility = "ok" THEN [armed EXCEPT !.durableAlarm = date]
        ELSE IF delay <= 0
             THEN IF armed.lastFired # iso
                  THEN [armed EXCEPT !.microtasks = @ + 1]
                  ELSE armed
             ELSE [armed EXCEPT !.localTimers = <<nowB + delay>>]

\* scheduleAlarm without the test of lines 36-44 against the pending alarm
scheduleAlarm_NoDedup(w, date, nowA, nowB, facility) ==
    LET iso == toISOString(date)
        armed == [w EXCEPT !.pending = iso]
        delay == date - nowB
    IN  IF date <= nowA + JITTER_MS THEN w
        ELSE IF w.lastFired = iso THEN w
        ELSE IF facility = "ok" THEN [armed EXCEPT !.durableAlarm = date]
        ELSE IF delay <= 0
             THEN IF armed.lastFired # iso
                  THEN [armed EXCEPT !.microtasks = @ + 1]
                  ELSE armed
             ELSE [armed EXCEPT !.localTimers = <<nowB + delay>>]

scheduleAlarm(w, date, nowA, nowB, facility) ==
    LET iso == toISOString(date)
        existing == DateParse(w.pending)
        armed == [w EXCEPT !.pending = iso]
        delay == date - nowB
    IN  IF date <= nowA + JITTER_MS THEN w
        ELSE IF Truthy(w.pending) /\ ~isNaN(existing) /\ existing <= date THEN w
        ELSE IF w.lastFired = iso THEN w
        ELSE IF facility = "ok" THEN [armed EXCEPT !.durableAlarm = date]
        ELSE IF delay <= 0
             THEN IF armed.lastFired # iso
                  THEN [armed EXCEPT !.microtasks = @ + 1]
                  ELSE armed
             ELSE [armed EXCEPT !.localTimers = <<nowB + delay>>]

----------------------------------------------------------------------------
(* EventLog *)

\* appendEvents that trims with slice(0, LIMIT): the newest entries are dropped
appendEvents_KeepsOldest(existing, batch) ==
    LET merged == existing \o batch
    IN  IF batch = <<>> THEN existing
        ELSE IF Len(merged) <= EVENT_HISTORY_LIMIT THEN merged
        ELSE SubSeq(merged, 1, EVENT_HISTORY_LIMIT)

\* appendEvents(events): the new value of "__events"
appendEvents(existing, batch) ==
    LET merged == existing \o batch
    IN  IF batch = <<>> THEN existing
        ELSE IF Len(merged) <= EVENT_HISTORY_LIMIT THEN merged
        ELSE SubSeq(merged, Len(merged) - EVENT_HISTORY_LIMIT + 1, Len(merged))

\* FilterSince with ts >= since at line 347
RECURSIVE FilterSince_Inclusive(_, _)
FilterSince_Inclusive(evts, since) ==
    IF evts = <<>> THEN <<>>
    ELSE LET ts == DateParse(Head(evts).occurredAt)
             rest == FilterSince_Inclusive(Tail(evts), since)
         IN  IF ~isNaN(ts) /\ ts >= since THEN <<Head(evts)>> \o rest ELSE rest

\* events.filter(evt => !isNaN(ts) && ts > since)
RECURSIVE FilterSince(_, _)
FilterSince(evts, since) ==
    IF evts = <<>> THEN <<>>
    ELSE LET ts == DateParse(Head(evts).occurredAt)
             rest == FilterSince(Tail(evts), since)
         IN  IF ~isNaN(ts) /\ ts > since THEN <<Head(evts)>> \o rest ELSE rest

\* getEvents(sinceIso)
getEvents(evts, sinceIso) ==
    IF ~Truthy(sinceIso) THEN evts
    ELSE IF isNaN(DateParse(sinceIso)) THEN evts
    ELSE FilterSince(evts, DateParse(sinceIso))

----------------------------------------------------------------------------
(* Tasks *)

\* a recurrence / cron string that may be null
NullStr == [isNull |-> TRUE, str |-> <<>>]
Str(s) == [isNull |-> FALSE, str |-> s]

\* JavaScript truthiness of string | null: null and "" are falsy
StrTruthy(r) == ~r.isNull /\ r.str # <<>>

\* a number that may be NaN or infinite (Number(body.timing.seconds))
Num(v) == [finite |-> TRUE, v |-> v]
NotFinite == [finite |-> FALSE, v |-> 0]

\* body.timing
NoTiming == [present |-> FALSE, type |-> "", seconds |-> NotFinite,
             when |-> Absent, cron |-> NullStr]
Timing(type) == [present |-> TRUE, type |-> type, seconds |-> NotFinite,
                 when |-> Absent, cron |-> NullStr]
Delay(secs) == [Timing("delay") EXCEPT !.seconds = secs]
Datetime(when) == [Timing("datetime") EXCEPT !.when = when]
Recurring(cron) == [Timing("recurring") EXCEPT !.cron = cron]

TimingTypes == {"datetime", "delay", "natural", "recurring"}

\* buildCreationNote(task), without the formatted date and duration text
buildCreationNote(task) ==
    CASE task.timing.type = "datetime" -> "Scheduled for"
      [] task.timing.type = "delay" -> "Runs in"
      [] task.timing.type = "recurring" -> "Repeats"
      [] OTHER -> "Timing"

----------------------------------------------------------------------------
(* The wake handler, alarm().  st is the record [tasks, lastRun, earliest, *)
(* fired, uuid] the loop of lines 277-323 carries; tLoop is the clock read *)
(* inside the loop (firedIso at line 285, new Date() at line 295).         *)

\* line 288: !task.recurrence
SingleRun(task) == ~StrTruthy(task.recurrence)

\* line 294
CronExpr(task) ==
    IF task.timing.type = "recurring" THEN task.timing.cron.str
    ELSE IF StrTruthy(task.recurrence) THEN task.recurrence.str ELSE <<>>

\* FiredTask with line 291 forgotten: a completed task keeps its nextRun
FiredTask_KeepsNextRun(task, next) ==
    IF SingleRun(task) THEN [task EXCEPT !.enabled = FALSE]
    ELSE IF ~isNaN(next) THEN [task EXCEPT !.nextRun = toISOString(next)]
    ELSE [task EXCEPT !.enabled = FALSE, !.nextRun = Absent]

\* FiredTask with line 298 forgotten: a rescheduled task keeps its old nextRun
FiredTask_NoReschedule(task, next) ==
    IF SingleRun(task) THEN [task EXCEPT !.enabled = FALSE, !.nextRun = Absent]
    ELSE IF ~isNaN(next) THEN task
    ELSE [task EXCEPT !.enabled = FALSE, !.nextRun = Absent]

\* FiredTask with line 304 forgotten: a task disabled for its invalid cron
\* keeps its nextRun
FiredTask_InvalidKeepsNextRun(task, next) ==
    IF SingleRun(task) THEN [task EXCEPT !.enabled = FALSE, !.nextRun = Absent]
    ELSE IF ~isNaN(next) THEN [task EXCEPT !.nextRun = toISOString(next)]
    ELSE [task EXCEPT !.enabled = FALSE]

\* FiredTask that also clears the recurrence of a task it disables for its
\* invalid cron
FiredTask_ClearsRecurrence(task, next) ==
    IF SingleRun(task) THEN [task EXCEPT !.enabled = FALSE, !.nextRun = Absent]
    ELSE IF ~isNaN(next) THEN [task EXCEPT !.nextRun = toISOString(next)]
    ELSE [task EXCEPT !.enabled = FALSE, !.nextRun = Absent, !.recurrence = NullStr]

\* lines 288-307: the task record written back; next is the result of
\* computeNextFromSimpleCron
FiredTask(task, next) ==
    IF SingleRun(task) THEN [task EXCEPT !.enabled = FALSE, !.nextRun = Absent]
    ELSE IF ~isNaN(next) THEN [task EXCEPT !.nextRun = toISOString(next)]
    ELSE [task EXCEPT !.enabled = FALSE, !.nextRun = Absent]

\* FiredNote with line 305 forgotten: the note of line 287 stays
FiredNote_NoInvalidNote(task, next) ==
    IF SingleRun(task) THEN "Task completed"
    ELSE IF ~isNaN(next) THEN "Recurring task rescheduled"
    ELSE "Task completed"

\* lines 287, 300, 305
FiredNote(task, next) ==
    IF SingleRun(task) THEN "Task completed"
    ELSE IF ~isNaN(next) THEN "Recurring task rescheduled"
    ELSE "Recurring task disabled (invalid cron)"

\* FireTask that reschedules from the previous nextRun, not from the clock
FireTask_FromPreviousNextRun(st, id, tLoop) ==
    LET task == st.tasks[id]
        firedIso == toISOString(tLoop)
        next == computeNextFromSimpleCron(CronExpr(task), DateParse(task.nextRun))
        updated == FiredTask(task, next)
        evt == [id |-> st.uuid + 1, taskId |-> id, title |-> task.title,
                kind |-> "fired", occurredAt |-> firedIso,
                nextRun |-> updated.nextRun, note |-> FiredNote(task, next)]
    IN  [tasks |-> [st.tasks EXCEPT ![id] = updated],
         lastRun |-> [i \in DOMAIN st.lastRun \cup {id} |->
                         IF i = id THEN firedIso ELSE st.lastRun[i]],
         earliest |-> IF ~SingleRun(task) /\ ~isNaN(next)
                         /\ (st.earliest = NoEarliest \/ next < st.earliest)
                      THEN next ELSE st.earliest,
         fired |-> Append(st.fired, evt),
         uuid |-> st.uuid + 1]

\* lines 283-318: a due task is marked run, then disabled or rescheduled
FireTask(st, id, tLoop) ==
    LET task == st.tasks[id]
        firedIso == toISOString(tLoop)
        next == computeNextFromSimpleCron(CronExpr(task), tLoop)
        updated == FiredTask(task, next)
        evt == [id |-> st.uuid + 1, taskId |-> id, title |-> task.title,
                kind |-> "fired", occurredAt |-> firedIso,
                nextRun |-> updated.nextRun, note |-> FiredNote(task, next)]
    IN  [tasks |-> [st.tasks EXCEPT ![id] = updated],
         lastRun |-> [i \in DOMAIN st.lastRun \cup {id} |->
                         IF i = id THEN firedIso ELSE st.lastRun[i]],
         earliest |-> IF ~SingleRun(task) /\ ~isNaN(next)
                         /\ (st.earliest = NoEarliest \/ next < st.earliest)
                      THEN next ELSE st.earliest,
         fired |-> Append(st.fired, evt),
         uuid |-> st.uuid + 1]

\* IsDue that takes every task with a nextRun as due
IsDue_Always(nextRun, effectiveNow) == TRUE

\* IsDue against the clock itself, without the tolerance of lines 270-271
IsDue_NoTolerance(nextRun, effectiveNow) == nextRun <= effectiveNow - TOLERANCE_MS

\* line 283
IsDue(nextRun, effectiveNow) == nextRun <= effectiveNow

\* AlarmStep without the test of task.enabled at line 279
AlarmStep_IgnoresEnabled(st, id, effectiveNow, tLoop) ==
    IF id \notin DOMAIN st.tasks THEN st
    ELSE LET task == st.tasks[id]
             nextRun == DateParse(task.nextRun)
         IN  IF ~Truthy(task.nextRun) THEN st
             ELSE IF isNaN(nextRun) THEN st
             ELSE IF IsDue(nextRun, effectiveNow) THEN FireTask(st, id, tLoop)
             ELSE IF nextRun > effectiveNow
                     /\ (st.earliest = NoEarliest \/ nextRun < st.earliest)
                  THEN [st EXCEPT !.earliest = nextRun]
                  ELSE st

\* lines 278-322: one iteration of the loop over the index
AlarmStep(st, id, effectiveNow, tLoop) ==
    IF id \notin DOMAIN st.tasks THEN st
    ELSE LET task == st.tasks[id]
             nextRun == DateParse(task.nextRun)
         IN  IF ~task.enabled \/ ~Truthy(task.nextRun) THEN st
             ELSE IF isNaN(nextRun) THEN st
             ELSE IF IsDue(nextRun, effectiveNow) THEN FireTask(st, id, tLoop)
             ELSE IF nextRun > effectiveNow
                     /\ (st.earliest = NoEarliest \/ nextRun < st.earliest)
                  THEN [st EXCEPT !.earliest = nextRun]
                  ELSE st

\* AlarmLoop that leaves the loop when a recurrence fails to parse
RECURSIVE AlarmLoop_StopsOnInvalid(_, _, _, _)
AlarmLoop_StopsOnInvalid(st, idx, effectiveNow, tLoop) ==
    IF idx = <<>> THEN st
    ELSE LET st2 == AlarmStep(st, Head(idx), effectiveNow, tLoop)
         IN  IF /\ st2.fired # st.fired
                /\ st2.fired[Len(st2.fired)].note = "Recurring task disabled (invalid cron)"
             THEN st2
             ELSE AlarmLoop_StopsOnInvalid(st2, Tail(idx), effectiveNow, tLoop)

RECURSIVE AlarmLoop(_, _, _, _)
AlarmLoop(st, idx, effectiveNow, tLoop) ==
    IF idx = <<>> THEN st
    ELSE AlarmLoop(AlarmStep(st, Head(idx), effectiveNow, tLoop), Tail(idx),
                   effectiveNow, tLoop)

\* AlarmTarget without the adjustment of line 332
AlarmTarget_NoClamp(earliest, tEnd) == earliest

\* lines 329-337: the next wake handed to scheduleAlarm; tEnd is the clock
\* read at line 332
AlarmTarget(earliest, tEnd) ==
    IF earliest <= tEnd + MIN_FUTURE_MS THEN tEnd + ADJUST_MS ELSE earliest

\* alarm() without line 262: the pending timestamp is not cleared
alarm_KeepsPending(S, rd, facility) ==
    LET justFiredIso == S.w.pending
        nowIso == toISOString(rd.start)
        w0 == [S.w EXCEPT !.lastFired = IF Truthy(justFiredIso) THEN justFiredIso ELSE nowIso]
        effectiveNow == rd.start + TOLERANCE_MS
        st == AlarmLoop([tasks |-> S.tasks, lastRun |-> S.lastRun,
                         earliest |-> NoEarliest, fired |-> <<>>, uuid |-> S.uuid],
                        S.index, effectiveNow, rd.loop)
        w1 == IF st.earliest # NoEarliest
              THEN scheduleAlarm(w0, AlarmTarget(st.earliest, rd.end), rd.end, rd.set,
                                 facility)
              ELSE w0
    IN  [tasks |-> st.tasks, index |-> S.index,
         events |-> appendEvents(S.events, st.fired),
         lastRun |-> st.lastRun, uuid |-> st.uuid, w |-> w1,
         fired |-> st.fired]

\* alarm(): S is the record [tasks, index, events, lastRun, uuid, w]; rd holds
\* the clock reads [start, loop, end, set] (lines 265/269, 285/295, 332/29, 65)
alarm(S, rd, facility) ==
    LET justFiredIso == S.w.pending
        nowIso == toISOString(rd.start)
        w0 == [S.w EXCEPT !.pending = Absent,
                          !.lastFired = IF Truthy(justFiredIso) THEN justFiredIso ELSE nowIso]
        effectiveNow == rd.start + TOLERANCE_MS
        st == AlarmLoop([tasks |-> S.tasks, lastRun |-> S.lastRun,
                         earliest |-> NoEarliest, fired |-> <<>>, uuid |-> S.uuid],
                        S.index, effectiveNow, rd.loop)
        w1 == IF st.earliest # NoEarliest
              THEN scheduleAlarm(w0, AlarmTarget(st.earliest, rd.end), rd.end, rd.set,
                                 facility)
              ELSE w0
    IN  [tasks |-> st.tasks, index |-> S.index,
         events |-> appendEvents(S.events, st.fired),
         lastRun |-> st.lastRun, uuid |-> st.uuid, w |-> w1,
         fired |-> st.fired]

----------------------------------------------------------------------------
(* POST /tasks: the create handler, lines 159-252.  body is the record     *)
(* [timing, recurrence, enabled]; rd holds the clock reads [start, next,   *)
(* sched, set, end] (lines 194, 209/213, 29, 65, 242).                     *)

\* CreateStatus without the check of lines 189-191
CreateStatus_NaturalAccepted(body) ==
    LET timing == body.timing
    IN  IF ~timing.present \/ timing.type = "" THEN 400
        ELSE IF timing.type \notin TimingTypes THEN 400
        ELSE IF timing.type = "delay"
                /\ (~timing.seconds.finite \/ timing.seconds.v <= 0) THEN 400
        ELSE IF timing.type = "datetime"
                /\ (~Truthy(timing.when) \/ isNaN(DateParse(timing.when))) THEN 400
        ELSE IF timing.type = "recurring" /\ timing.cron.isNull THEN 400
        ELSE 201

\* lines 163-191, and the TypeError of line 212 caught at line 249
CreateStatus(body) ==
    LET timing == body.timing
    IN  IF ~timing.present \/ timing.type = "" THEN 400
        ELSE IF timing.type \notin TimingTypes THEN 400
        ELSE IF timing.type = "delay"
                /\ (~timing.seconds.finite \/ timing.seconds.v <= 0) THEN 400
        ELSE IF timing.type = "datetime"
                /\ (~Truthy(timing.when) \/ isNaN(DateParse(timing.when))) THEN 400
        ELSE IF timing.type = "natural" THEN 400
        ELSE IF timing.type = "recurring" /\ timing.cron.isNull THEN 400
        ELSE 201

\* InitialNextRun that stores the normalised form of timing.when
InitialNextRun_Normalised(timing, t) ==
    IF timing.type = "datetime" THEN toISOString(DateParse(timing.when))
    ELSE IF timing.type = "delay" THEN toISOString(t + timing.seconds.v * 1000)
    ELSE LET next == computeNextFromSimpleCron(Trim(timing.cron.str), t)
         IN  IF ~isNaN(next) THEN toISOString(next) ELSE Absent

\* InitialNextRun without the "* 1000" of line 209
InitialNextRun_SecondsAsMs(timing, t) ==
    IF timing.type = "datetime" THEN timing.when
    ELSE IF timing.type = "delay" THEN toISOString(t + timing.seconds.v)
    ELSE LET next == computeNextFromSimpleCron(Trim(timing.cron.str), t)
         IN  IF ~isNaN(next) THEN toISOString(next) ELSE Absent

\* InitialNextRun that falls back to one minute when the cron is not parsed
InitialNextRun_DefaultsToMinute(timing, t) ==
    IF timing.type = "datetime" THEN timing.when
    ELSE IF timing.type = "delay" THEN toISOString(t + timing.seconds.v * 1000)
    ELSE LET next == computeNextFromSimpleCron(Trim(timing.cron.str), t)
         IN  IF ~isNaN(next) THEN toISOString(next) ELSE toISOString(t + MINUTE_MS)

\* lines 206-220
InitialNextRun(timing, t) ==
    IF timing.type = "datetime" THEN timing.when
    ELSE IF timing.type = "delay" THEN toISOString(t + timing.seconds.v * 1000)
    ELSE LET next == computeNextFromSimpleCron(Trim(timing.cron.str), t)
         IN  IF ~isNaN(next) THEN toISOString(next) ELSE Absent

\* lines 193-220: createdAt is the clock read at line 194, nextRun is
\* computed from the one at line 209 / 213
NewTask(id, body, tCreated, tNext) ==
    [id |-> id, title |-> "Untitled", createdAt |-> toISOString(tCreated),
     timing |-> body.timing, recurrence |-> body.recurrence,
     enabled |-> body.enabled, nextRun |-> InitialNextRun(body.timing, tNext)]

\* createTask that writes an index holding only the new id (lines 223-225
\* without the read of the stored index)
createTask_IndexOverwritten(S, body, rd, facility) ==
    LET id == S.uuid + 1
        task == NewTask(id, body, rd.start, rd.next)
        next == DateParse(task.nextRun)
        w1 == IF Truthy(task.nextRun) /\ ~isNaN(next)
              THEN scheduleAlarm(S.w, next, rd.sched, rd.set, facility)
              ELSE S.w
        evt == [id |-> S.uuid + 2, taskId |-> id, title |-> task.title,
                kind |-> "created", occurredAt |-> toISOString(rd.end),
                nextRun |-> task.nextRun, note |-> buildCreationNote(task)]
    IN  [tasks |-> [i \in DOMAIN S.tasks \cup {id} |->
                       IF i = id THEN task ELSE S.tasks[i]],
         index |-> <<id>>,
         events |-> appendEvents(S.events, <<evt>>),
         lastRun |-> S.lastRun, uuid |-> S.uuid + 2, w |-> w1,
         fired |-> <<evt>>, task |-> task]

\* lines 222-248
createTask(S, body, rd, facility) ==
    LET id == S.uuid + 1
        task == NewTask(id, body, rd.start, rd.next)
        next == DateParse(task.nextRun)
        w1 == IF Truthy(task.nextRun) /\ ~isNaN(next)
              THEN scheduleAlarm(S.w, next, rd.sched, rd.set, facility)
              ELSE S.w
        evt == [id |-> S.uuid + 2, taskId |-> id, title |-> task.title,
                kind |-> "created", occurredAt |-> toISOString(rd.end),
                nextRun |-> task.nextRun, note |-> buildCreationNote(task)]
    IN  [tasks |-> [i \in DOMAIN S.tasks \cup {id} |->
                       IF i = id THEN task ELSE S.tasks[i]],
         index |-> Append(S.index, id),
         events |-> appendEvents(S.events, <<evt>>),
         lastRun |-> S.lastRun, uuid |-> S.uuid + 2, w |-> w1,
         fired |-> <<evt>>, task |-> task]

----------------------------------------------------------------------------
(* The state machine *)

NoTasks == [i \in {} |-> Absent]

Init ==
    /\ now = 0
    /\ uuid = 0
    /\ tasks = NoTasks
    /\ index = <<>>
    /\ events = <<>>
    /\ lastRun = NoTasks
    /\ pending = Absent
    /\ lastFired = Absent
    /\ durableAlarm = NoAlarm
    /\ localTimers = <<>>
    /\ microtasks = 0
    /\ ticks = 0
    /\ restarts = 0
    /\ allEvents = <<>>
    /\ last = [op |-> "init", status |-> 0]

\* the object's state as one record
Cur ==
    [tasks |-> tasks, index |-> index, events |-> events, lastRun |-> lastRun,
     uuid |-> uuid,
     w |-> [pending |-> pending, lastFired |-> lastFired,
            durableAlarm |-> durableAlarm, localTimers |-> localTimers,
            microtasks |-> microtasks]]

\* the state a handler leaves behind
Install(R) ==
    /\ tasks' = R.tasks
    /\ index' = R.index
    /\ events' = R.events
    /\ lastRun' = R.lastRun
    /\ uuid' = R.uuid
    /\ pending' = R.w.pending
    /\ lastFired' = R.w.lastFired
    /\ durableAlarm' = R.w.durableAlarm
    /\ localTimers' = R.w.localTimers
    /\ microtasks' = R.w.microtasks
    /\ allEvents' = allEvents \o R.fired

\* every clock read of a handler that takes no time
Reads(t) == [start |-> t, next |-> t, loop |-> t, sched |-> t, end |-> t, set |-> t]

\* the clock advances between two handlers
Steps == {800, 60000}

Tick ==
    /\ ticks < MaxTicks
    /\ \E d \in Steps : now' = now + d
    /\ ticks' = ticks + 1
    /\ last' = [op |-> "tick", status |-> 0]
    /\ UNCHANGED <<uuid, storageVars, wakeVars, restarts, allEvents>>

\* request bodies: every way a timing is rejected, and the timings that are
\* accepted, with and without a legacy recurrence string
Body(timing, recurrence, enabled) ==
    [timing |-> timing, recurrence |-> recurrence, enabled |-> enabled]

RejectedTimings ==
    {NoTiming, Timing(""), Timing("weekly"), Timing("natural"),
     Delay(Num(0)), Delay(NotFinite), Datetime(Absent), Datetime(BadIso),
     Recurring(NullStr)}

Bodies ==
    {Body(t, NullStr, TRUE) : t \in RejectedTimings}
    \cup {Body(Delay(Num(1)), r, TRUE) :
            r \in {NullStr, Str(EveryMinutePadded), Str(EveryZero)}}
    \cup {Body(Datetime(toISOString(0)), NullStr, TRUE),
          Body(Datetime(AltIso(1000)), NullStr, TRUE),
          Body(Datetime(AltIso(1000)), Str(EveryMinute), FALSE),
          Body(Recurring(Str(EveryMinute)), NullStr, TRUE),
          Body(Recurring(Str(EveryMinute)), Str(Wildcard), TRUE),
          Body(Recurring(Str(Wildcard)), Str(EveryMinute), TRUE),
          Body(Recurring(Str(Wildcard)), NullStr, TRUE)}

\* POST /tasks answered 400 (lines 163-191 and 249-251): the response is all
\* that depends on the body
CreateRejected ==
    \E status \in {CreateStatus(body) : body \in Bodies} \ {201} :
        /\ last' = [op |-> "create", status |-> status]
        /\ UNCHANGED <<now, uuid, storageVars, wakeVars, ticks, restarts, allEvents>>

\* JSON.stringify of a task (line 248): strings, booleans and null are kept,
\* a property that is undefined is left out, which reads back as absent
JsonTask(task) == task

\* POST /tasks answered 201: lines 193-248; the response carries the task
CreateAccepted(F) ==
    \E body \in Bodies, f \in F :
        /\ CreateStatus(body) = 201
        /\ Len(index) < MaxTasks
        /\ LET R == createTask(Cur, body, Reads(now), f)
           IN  /\ Install(R)
               /\ last' = [op |-> "create", status |-> 201, facility |-> f,
                           task |-> JsonTask(R.task)]
        /\ UNCHANGED <<now, ticks, restarts>>

CycleOps == {"alarm", "fallback", "microtask", "run-due", "force-run"}

\* a wake cycle, whoever invoked it; again records that the step before it
\* was a wake cycle too
Cycle(op, w, f) ==
    /\ Install(alarm([Cur EXCEPT !.w = w], Reads(now), f))
    /\ last' = [op |-> op, status |-> 200, again |-> last.op \in CycleOps,
                facility |-> f]
    /\ UNCHANGED <<now, ticks, restarts>>

\* POST /tasks/run-due
RunDue(F) == \E f \in F : Cycle("run-due", Cur.w, f)

\* POST /tasks/force-run
ForceRun(F) == \E f \in F : Cycle("force-run", Cur.w, f)

\* the platform delivers the durable alarm: it is no longer set when alarm() runs
DurableWake(F) ==
    /\ durableAlarm # NoAlarm
    /\ now >= durableAlarm
    /\ \E f \in F : Cycle("alarm", [Cur.w EXCEPT !.durableAlarm = NoAlarm], f)

\* a setTimeout callback of the fallback (lines 83-88)
FallbackWake(F) ==
    \E i \in 1..Len(localTimers) :
        /\ now >= localTimers[i]
        /\ \E f \in F :
               Cycle("fallback",
                     [Cur.w EXCEPT !.localTimers =
                         SubSeq(localTimers, 1, i - 1)
                             \o SubSeq(localTimers, i + 1, Len(localTimers))],
                     f)

\* the instance is evicted and constructed again: the fields of lines 17-19
\* are reset, timers and microtasks of the old isolate are gone, storage and
\* the durable alarm stay
Restart ==
    /\ restarts < MaxRestarts
    /\ restarts' = restarts + 1
    /\ pending' = Absent
    /\ lastFired' = Absent
    /\ localTimers' = <<>>
    /\ microtasks' = 0
    /\ last' = [op |-> "restart", status |-> 0]
    /\ UNCHANGED <<now, uuid, storageVars, durableAlarm, ticks, allEvents>>

\* production: state.setAlarm exists and succeeds
Durable == {"ok"}
\* state.setAlarm may throw on any call
Flaky == {"ok", "throws"}

Next ==
    \/ Tick
    \/ CreateRejected
    \/ CreateAccepted(Durable)
    \/ RunDue(Durable)
    \/ ForceRun(Durable)
    \/ DurableWake(Durable)

Spec == Init /\ [][Next]_vars

NextFlaky ==
    \/ Tick
    \/ CreateAccepted(Flaky)
    \/ RunDue(Flaky)
    \/ DurableWake(Flaky)
    \/ FallbackWake(Flaky)

SpecFlaky == Init /\ [][NextFlaky]_vars

NextRestart ==
    \/ Tick
    \/ CreateAccepted(Durable)
    \/ DurableWake(Durable)
    \/ Restart

SpecRestart == Init /\ [][NextRestart]_vars

----------------------------------------------------------------------------
(* The event log on its own: handlers append batches (one "created" event  *)
(* at line 236, the "fired" events of a cycle at line 326) until the log   *)
(* has overflowed.                                                         *)

MaxBatch == 3
MaxLogged == 124

\* a batch of k events stamped with the current time
NewEvents(k) ==
    [i \in 1..k |->
        [id |-> uuid + i, taskId |-> 0, title |-> "Untitled", kind |-> "fired",
         occurredAt |-> toISOString(now), nextRun |-> Absent,
         note |-> "Task completed"]]

LogAppend ==
    \E k \in 0..MaxBatch :
        /\ Len(allEvents) + k <= MaxLogged
        /\ events' = appendEvents(events, NewEvents(k))
        /\ allEvents' = allEvents \o NewEvents(k)
        /\ uuid' = uuid + k
        /\ last' = [op |-> "append", status |-> 0]
        /\ UNCHANGED <<now, tasks, index, lastRun, wakeVars, ticks, restarts>>

SpecLog == Init /\ [][LogAppend]_vars

----------------------------------------------------------------------------
(* GET /tasks/events?since=..., lines 115-121: the response is kept in     *)
(* last.  The cursors tried are a missing one, an unparsable one, the      *)
(* current time and every timestamp in the log.                            *)

Sinces ==
    {Absent, BadIso, AltIso(now)} \cup {events[i].occurredAt : i \in 1..Len(events)}

ListEvents ==
    \E since \in Sinces :
        LET out == getEvents(events, since)
        IN  /\ last' = [op |-> "events", status |-> 200, since |-> since,
                        events |-> out,
                        latest |-> IF Len(out) # 0 THEN out[Len(out)].occurredAt
                                   ELSE Absent]
            /\ UNCHANGED <<now, uuid, storageVars, wakeVars, ticks, restarts,
                           allEvents>>

NextEvents ==
    \/ Tick
    \/ CreateAccepted(Durable)
    \/ RunDue(Durable)
    \/ DurableWake(Durable)
    \/ ListEvents

SpecEvents == Init /\ [][NextEvents]_vars

----------------------------------------------------------------------------
(* Vocabulary of the properties *)

\* the step is a wake cycle (every action sets last, so a step that changes
\* the state and ends with a cycle's name in last is that cycle)
IsCycleStep == last'.op \in CycleOps

\* the events the step handed to appendEvents
Batch == SubSeq(allEvents', Len(allEvents) + 1, Len(allEvents'))

EventsOf(evts, id) == SelectSeq(evts, LAMBDA e : e.taskId = id)

InLog(evts, e) == \E i \in 1..Len(evts) : evts[i] = e

\* task id is enabled and due for a cycle that starts now (line 283)
DueNow(id) ==
    /\ tasks[id].enabled
    /\ Truthy(tasks[id].nextRun)
    /\ ~isNaN(DateParse(tasks[id].nextRun))
    /\ DateParse(tasks[id].nextRun) <= now + TOLERANCE_MS

\* the task was created as recurring: by its timing or by the legacy field
IsRecurring(task) == task.timing.type = "recurring" \/ StrTruthy(task.recurrence)

\* the expression is of the supported form */N * * * *, N > 0
ValidCron(expr) == ~isNaN(computeNextFromSimpleCron(expr, 0))

\* the times of the outstanding wakes after the step / now
WakesNext ==
    (IF durableAlarm' # NoAlarm THEN {durableAlarm'} ELSE {})
        \cup {localTimers'[i] : i \in 1..Len(localTimers')}

Wakes ==
    (IF durableAlarm # NoAlarm THEN {durableAlarm} ELSE {})
        \cup {localTimers[i] : i \in 1..Len(localTimers)}

----------------------------------------------------------------------------
(* C1: a wake cycle that processes an enabled, due task that is not       *)
(* recurring (neither by its timing nor by the legacy field) leaves it     *)
(* with enabled = false and no nextRun, and hands appendEvents exactly one *)
(* event for it, of kind "fired" with note "Task completed", which is then *)
(* in the log.                                                             *)
C1_DueSingleRunCompletes ==
    [][IsCycleStep =>
        \A id \in DOMAIN tasks :
            (DueNow(id) /\ ~IsRecurring(tasks[id])) =>
                /\ tasks'[id].enabled = FALSE
                /\ tasks'[id].nextRun = Absent
                /\ Len(EventsOf(Batch, id)) = 1
                /\ EventsOf(Batch, id)[1].kind = "fired"
                /\ EventsOf(Batch, id)[1].note = "Task completed"
                /\ InLog(events', EventsOf(Batch, id)[1])]_vars

\* a cycle has just completed a single-run task
C1_Witness ==
    /\ last.op \in CycleOps
    /\ \E id \in DOMAIN tasks :
        /\ ~IsRecurring(tasks[id])
        /\ ~tasks[id].enabled
        /\ tasks[id].nextRun = Absent
        /\ id \in DOMAIN lastRun
        /\ lastRun[id] = toISOString(now)
        /\ \E i \in 1..Len(events) :
              /\ events[i].taskId = id
              /\ events[i].note = "Task completed"
              /\ events[i].occurredAt = toISOString(now)

(* C2: a wake cycle that processes a due, enabled recurring task with a    *)
(* valid cron (the task may be recurring by its timing alone) keeps it     *)
(* enabled with a nextRun strictly after the firing time, and ends with a  *)
(* wake armed no later than the earliest nextRun of the enabled tasks.     *)
C2_RecurringStaysPending ==
    [][IsCycleStep =>
        \A id \in DOMAIN tasks :
            (DueNow(id) /\ IsRecurring(tasks[id]) /\ ValidCron(CronExpr(tasks[id]))) =>
                /\ tasks'[id].enabled
                /\ Truthy(tasks'[id].nextRun)
                /\ DateParse(tasks'[id].nextRun) > now
                /\ \E w \in WakesNext :
                      \A j \in DOMAIN tasks' :
                          (tasks'[j].enabled /\ ~isNaN(DateParse(tasks'[j].nextRun)))
                              => w <= DateParse(tasks'[j].nextRun)]_vars

(* C3: a wake cycle in which a recurring task with an unparsable cron      *)
(* expression (taken from timing.cron or from the legacy recurrence field, *)
(* as line 294 does) is due disables it: enabled = false, no nextRun, and  *)
(* a "fired" event with note "Recurring task disabled (invalid cron)" is   *)
(* appended.                                                               *)
C3_InvalidCronDisables ==
    [][IsCycleStep =>
        \A id \in DOMAIN tasks :
            (DueNow(id) /\ IsRecurring(tasks[id]) /\ ~ValidCron(CronExpr(tasks[id]))) =>
                /\ tasks'[id].enabled = FALSE
                /\ tasks'[id].nextRun = Absent
                /\ Len(EventsOf(Batch, id)) = 1
                /\ EventsOf(Batch, id)[1].kind = "fired"
                /\ EventsOf(Batch, id)[1].note = "Recurring task disabled (invalid cron)"
                /\ InLog(events', EventsOf(Batch, id)[1])]_vars

\* a cycle has just disabled a recurring task for its invalid cron
C3_Witness ==
    /\ last.op \in CycleOps
    /\ \E id \in DOMAIN tasks :
        /\ IsRecurring(tasks[id])
        /\ ~ValidCron(CronExpr(tasks[id]))
        /\ ~tasks[id].enabled
        /\ tasks[id].nextRun = Absent
        /\ \E i \in 1..Len(events) :
              /\ events[i].taskId = id
              /\ events[i].kind = "fired"
              /\ events[i].note = "Recurring task disabled (invalid cron)"
              /\ events[i].occurredAt = toISOString(now)

\* the "fired" events of task id that carry the timestamp t
FiredAt(evts, id, t) ==
    {i \in 1..Len(evts) :
        evts[i].kind = "fired" /\ evts[i].taskId = id /\ evts[i].occurredAt = t}

(* C4: a wake cycle that directly follows another one, with no time        *)
(* elapsed, fires no task the earlier one fired: after it every task fired *)
(* at this instant still has exactly one "fired" event for this instant.   *)
C4_BackToBackFiresOnce ==
    [][(IsCycleStep /\ last.op \in CycleOps) =>
        \A id \in DOMAIN tasks :
            (id \in DOMAIN lastRun /\ lastRun[id] = toISOString(now)) =>
                /\ EventsOf(Batch, id) = <<>>
                /\ Cardinality(FiredAt(allEvents', id, toISOString(now))) = 1]_vars

\* the second of two back-to-back cycles has run, and the first fired a task
C4_Witness ==
    /\ last.op \in CycleOps
    /\ last.again
    /\ \E id \in DOMAIN lastRun :
        /\ lastRun[id] = toISOString(now)
        /\ Cardinality(FiredAt(allEvents, id, toISOString(now))) = 1

\* the timings the create handler rejects as invalid
InvalidTiming(timing) ==
    \/ ~timing.present
    \/ timing.type = ""
    \/ timing.type \notin {"datetime", "delay", "recurring"}
    \/ timing.type = "delay" /\ (~timing.seconds.finite \/ timing.seconds.v <= 0)
    \/ timing.type = "datetime" /\ (~Truthy(timing.when) \/ isNaN(DateParse(timing.when)))

(* C5: a create request whose timing is invalid (missing timing or type,   *)
(* unsupported type, type "natural", delay seconds not finite or <= 0,     *)
(* datetime "when" missing or unparsable) is answered 400, and a create    *)
(* answered 400 changes nothing: no task record, index entry, event or     *)
(* last-run marker, and the scheduler's pending / armed wake is unchanged. *)
C5_InvalidTimingRejected ==
    /\ [](\A body \in Bodies : InvalidTiming(body.timing) => CreateStatus(body) = 400)
    /\ [][(last'.op = "create" /\ last'.status = 400) =>
            UNCHANGED <<storageVars, wakeVars, uuid, allEvents>>]_vars

\* a create has just been rejected while tasks and an armed wake exist
C5_Witness ==
    /\ last.op = "create"
    /\ last.status = 400
    /\ index # <<>>
    /\ Wakes # {}

\* the number of outstanding wake requests: the durable alarm, the fallback
\* timers and the queued microtask fires
OutstandingWakes ==
    (IF durableAlarm # NoAlarm THEN 1 ELSE 0) + Len(localTimers) + microtasks

(* C6: at most one wake request is outstanding at any time, the durable    *)
(* alarm and the fallback timers counted together, also when setAlarm      *)
(* fails on some calls and succeeds on others.                             *)
C6_AtMostOneWake == OutstandingWakes <= 1

\* the enabled tasks whose nextRun is still ahead of the clock
FutureTasks ==
    {id \in DOMAIN tasks :
        /\ tasks[id].enabled
        /\ ~isNaN(DateParse(tasks[id].nextRun))
        /\ DateParse(tasks[id].nextRun) > now}

(* C7: whenever a wake is outstanding it is armed for the earliest nextRun *)
(* among the enabled tasks: no enabled task has a nextRun earlier than the *)
(* armed wake by more than the jitter window.  (Stated for the tasks whose *)
(* nextRun is still in the future; tasks already overdue are left out.)    *)
C7_WakeIsEarliest ==
    \A w \in Wakes :
        \A id \in FutureTasks : w <= DateParse(tasks[id].nextRun) + JITTER_MS

(* C8: after a restart has reset pending and lastFired, storage and the    *)
(* durable alarm alone keep every task on time: for any creates and wakes  *)
(* that follow, every enabled task whose nextRun is still ahead has the    *)
(* durable alarm armed at or before its nextRun (within the jitter         *)
(* window), as it has in every state of an instance that never restarts.   *)
C8_RestartKeepsCoverage ==
    \A id \in FutureTasks :
        /\ durableAlarm # NoAlarm
        /\ durableAlarm <= DateParse(tasks[id].nextRun) + JITTER_MS

\* the last n entries of a sequence
LastN(seq, n) ==
    IF Len(seq) <= n THEN seq ELSE SubSeq(seq, Len(seq) - n + 1, Len(seq))

(* C9: the event log never holds more than 120 entries, and it is always   *)
(* the most recent (up to 120) of the events ever appended, in append      *)
(* order: on overflow exactly the oldest entries are dropped.              *)
C9_LogIsNewestEvents ==
    /\ Len(events) <= EVENT_HISTORY_LIMIT
    /\ events = LastN(allEvents, EVENT_HISTORY_LIMIT)

\* the log has overflowed: events were dropped and the log is full
C9_Witness ==
    /\ Len(allEvents) > EVENT_HISTORY_LIMIT
    /\ Len(events) = EVENT_HISTORY_LIMIT
    /\ last.op = "append"

\* evts is in chronological order
Chronological(evts) ==
    \A i, j \in 1..Len(evts) :
        i <= j => DateParse(evts[i].occurredAt) <= DateParse(evts[j].occurredAt)

(* C10: list-events with a parseable cursor returns exactly the logged     *)
(* events whose occurredAt is strictly greater than the cursor, in         *)
(* chronological order, and "latest" is the occurredAt of the last entry   *)
(* returned (none when nothing is returned).                               *)
C10_EventsAfterCursor ==
    (last.op = "events" /\ ~isNaN(DateParse(last.since))) =>
        /\ last.events =
              SelectSeq(events,
                        LAMBDA e : DateParse(e.occurredAt) > DateParse(last.since))
        /\ Chronological(last.events)
        /\ last.latest = IF Len(last.events) = 0 THEN Absent
                         ELSE last.events[Len(last.events)].occurredAt

\* a poll has returned some, but not all, of the logged events
C10_Witness ==
    /\ last.op = "events"
    /\ ~isNaN(DateParse(last.since))
    /\ Len(last.events) > 0
    /\ Len(last.events) < Len(events)

----------------------------------------------------------------------------
(* Handlers that take time: the clock advances between the clock reads of  *)
(* one create.  a is the time between line 194 and line 209 / 213, b the   *)
(* time the storage writes of lines 222-225 take before scheduleAlarm      *)
(* reads the clock at line 29.                                             *)

Lags == {0, 3}

CreateElapsed(F) ==
    \E body \in Bodies, f \in F, a \in Lags, b \in Lags :
        /\ CreateStatus(body) = 201
        /\ Len(index) < MaxTasks
        /\ LET rd == [start |-> now, next |-> now + a, loop |-> now + a,
                      sched |-> now + a + b, set |-> now + a + b,
                      end |-> now + a + b]
               R == createTask(Cur, body, rd, f)
           IN  /\ Install(R)
               /\ last' = [op |-> "create", status |-> 201, facility |-> f,
                           task |-> JsonTask(R.task)]
               /\ now' = rd.end
        /\ UNCHANGED <<ticks, restarts>>

NextElapsed ==
    \/ Tick
    \/ CreateElapsed(Durable)
    \/ DurableWake(Durable)

SpecElapsed == Init /\ [][NextElapsed]_vars

----------------------------------------------------------------------------
(* The read-only requests GET /tasks/due (lines 125-137) and GET /tasks    *)
(* (lines 148-157); the response is kept in last, with the operation that  *)
(* came before it.                                                         *)

\* DueList with the test of t.enabled at line 131 left out
RECURSIVE DueList_IgnoresEnabled(_, _, _)
DueList_IgnoresEnabled(idx, tks, t) ==
    IF idx = <<>> THEN <<>>
    ELSE LET id == Head(idx)
             rest == DueList_IgnoresEnabled(Tail(idx), tks, t)
         IN  IF /\ id \in DOMAIN tks
                /\ Truthy(tks[id].nextRun)
                /\ ~isNaN(DateParse(tks[id].nextRun))
                /\ DateParse(tks[id].nextRun) <= t
             THEN <<tks[id]>> \o rest
             ELSE rest

\* lines 127-135: the due array; t is the clock read at line 126
RECURSIVE DueList(_, _, _)
DueList(idx, tks, t) ==
    IF idx = <<>> THEN <<>>
    ELSE LET id == Head(idx)
             rest == DueList(Tail(idx), tks, t)
         IN  IF /\ id \in DOMAIN tks
                /\ tks[id].enabled
                /\ Truthy(tks[id].nextRun)
                /\ ~isNaN(DateParse(tks[id].nextRun))
                /\ DateParse(tks[id].nextRun) <= t
             THEN <<tks[id]>> \o rest
             ELSE rest

\* lines 150-155: the tasks array
RECURSIVE TaskList(_, _)
TaskList(idx, tks) ==
    IF idx = <<>> THEN <<>>
    ELSE IF Head(idx) \in DOMAIN tks
         THEN <<tks[Head(idx)]>> \o TaskList(Tail(idx), tks)
         ELSE TaskList(Tail(idx), tks)

ListDue ==
    /\ last' = [op |-> "due", status |-> 200, prev |-> last.op,
                due |-> DueList(index, tasks, now)]
    /\ UNCHANGED <<now, uuid, storageVars, wakeVars, ticks, restarts, allEvents>>

ListTasks ==
    /\ last' = [op |-> "list", status |-> 200, prev |-> last.op,
                tasks |-> TaskList(index, tasks)]
    /\ UNCHANGED <<now, uuid, storageVars, wakeVars, ticks, restarts, allEvents>>

NextLists ==
    \/ Tick
    \/ CreateAccepted(Durable)
    \/ RunDue(Durable)
    \/ DurableWake(Durable)
    \/ ListDue
    \/ ListTasks

SpecLists == Init /\ [][NextLists]_vars

----------------------------------------------------------------------------
(* An instance without a working durable alarm (local development):        *)
(* state.setAlarm is missing or throws on every call, and the thread may   *)
(* stall inside scheduleAlarm, between the clock read of line 29 and the   *)
(* one of line 65, for longer than the jitter window.  A stall is a clock  *)
(* advance and counts against MaxTicks.                                    *)

Unavailable == {"throws", "absent"}

SchedLags == {0, 200}

Advance(g) ==
    /\ g > 0 => ticks < MaxTicks
    /\ now' = now + g
    /\ ticks' = IF g > 0 THEN ticks + 1 ELSE ticks

CreateLagged(F) ==
    \E body \in Bodies, f \in F, g \in SchedLags :
        /\ CreateStatus(body) = 201
        /\ Len(index) < MaxTasks
        /\ LET rd == [Reads(now) EXCEPT !.set = now + g, !.end = now + g]
               R == createTask(Cur, body, rd, f)
           IN  /\ Install(R)
               /\ last' = [op |-> "create", status |-> 201, facility |-> f,
                           task |-> JsonTask(R.task)]
        /\ Advance(g)
        /\ UNCHANGED restarts

CycleLagged(op, w, F) ==
    \E f \in F, g \in SchedLags :
        /\ Install(alarm([Cur EXCEPT !.w = w], [Reads(now) EXCEPT !.set = now + g], f))
        /\ last' = [op |-> op, status |-> 200, again |-> last.op \in CycleOps,
                    facility |-> f]
        /\ Advance(g)
        /\ UNCHANGED restarts

RunDueLagged(F) == CycleLagged("run-due", Cur.w, F)

\* the setTimeout callback of lines 83-88
TimerWake(F) ==
    \E i \in 1..Len(localTimers) :
        /\ now >= localTimers[i]
        /\ CycleLagged("fallback",
                       [Cur.w EXCEPT !.localTimers =
                           SubSeq(localTimers, 1, i - 1)
                               \o SubSeq(localTimers, i + 1, Len(localTimers))],
                       F)

\* the callback queued by queueMicrotask at lines 69-72
MicrotaskWake(F) ==
    /\ microtasks > 0
    /\ CycleLagged("microtask", [Cur.w EXCEPT !.microtasks = microtasks - 1], F)

NextFallback ==
    \/ Tick
    \/ CreateLagged(Unavailable)
    \/ RunDueLagged(Unavailable)
    \/ TimerWake(Unavailable)
    \/ MicrotaskWake(Unavailable)

SpecFallback == Init /\ [][NextFallback]_vars

----------------------------------------------------------------------------
(* Vocabulary of the create properties *)

\* the step is a create answered 201
IsCreated == last'.op = "create" /\ last'.status = 201

\* the id the step added to the index
NewId == index'[Len(index')]

\* the task record the step persisted
Persisted == tasks'[NewId]

\* the 'created' events of the step
CreatedEvents == SelectSeq(Batch, LAMBDA e : e.kind = "created")

(* C11: a create answered 201 whose timing is {type: datetime, when: T}    *)
(* persists the task with nextRun = T, the very string given, and the task *)
(* in the response and the 'created' event carry the same nextRun.         *)
C11_DatetimeNextRunIsWhen ==
    [][(IsCreated /\ last'.task.timing.type = "datetime") =>
        /\ Persisted.nextRun = Persisted.timing.when
        /\ last'.task.nextRun = Persisted.timing.when
        /\ Len(CreatedEvents) = 1
        /\ CreatedEvents[1].nextRun = Persisted.timing.when]_vars

\* a datetime task whose "when" is not in normalised form has been created
C11_Witness ==
    /\ last.op = "create"
    /\ last.status = 201
    /\ last.task.timing.type = "datetime"
    /\ last.task.timing.when.fmt = "alt"
    /\ tasks[last.task.id].nextRun = last.task.timing.when
    /\ events[Len(events)].nextRun = last.task.timing.when

(* C12: a create answered 201 whose timing is {type: delay, seconds: s}    *)
(* persists the task with nextRun = createdAt + s seconds, up to the time  *)
(* that elapses inside the handler: nextRun is never earlier than that and *)
(* later by no more than the handler's duration.                           *)
C12_DelayNextRunIsCreatedPlusDelay ==
    [][(IsCreated /\ last'.task.timing.type = "delay") =>
        LET created == DateParse(Persisted.createdAt)
            next == DateParse(Persisted.nextRun)
            due == created + Persisted.timing.seconds.v * 1000
        IN  /\ created >= now
            /\ next >= due
            /\ next - due <= now' - now]_vars

\* a delay task has been created by a handler during which the clock moved
C12_Witness ==
    /\ last.op = "create"
    /\ last.status = 201
    /\ last.task.timing.type = "delay"
    /\ DateParse(tasks[last.task.id].nextRun)
          > DateParse(tasks[last.task.id].createdAt)
              + last.task.timing.seconds.v * 1000

\* a recurring timing whose cron is a string of an unsupported form
UnparsableRecurring(timing) ==
    /\ timing.present
    /\ timing.type = "recurring"
    /\ ~timing.cron.isNull
    /\ ~ValidCron(timing.cron.str)

\* the 'fired' events for task id among evts
FiredOf(evts, id) == SelectSeq(evts, LAMBDA e : e.taskId = id /\ e.kind = "fired")

(* C13: a create whose timing is recurring with an unparsable cron string  *)
(* is answered 201; it persists the task with the enabled flag requested   *)
(* and no nextRun and leaves the armed wake as it was; and such a task     *)
(* keeps no nextRun, is never fired and never gets a last-run marker.      *)
C13_UnparsableCronIsInert ==
    /\ [](\A body \in Bodies :
            UnparsableRecurring(body.timing) => CreateStatus(body) = 201)
    /\ [][(IsCreated /\ UnparsableRecurring(last'.task.timing)) =>
            /\ Persisted.enabled
            /\ Persisted.nextRun = Absent
            /\ UNCHANGED wakeVars]_vars
    /\ [](\A id \in DOMAIN tasks :
            UnparsableRecurring(tasks[id].timing) =>
                /\ tasks[id].enabled
                /\ tasks[id].nextRun = Absent
                /\ FiredOf(allEvents, id) = <<>>
                /\ id \notin DOMAIN lastRun)

\* a wake cycle has run, a minute or more after such a task was created
C13_Witness ==
    /\ last.op \in CycleOps
    /\ \E id \in DOMAIN tasks :
        /\ UnparsableRecurring(tasks[id].timing)
        /\ tasks[id].enabled
        /\ now >= DateParse(tasks[id].createdAt) + MINUTE_MS

(* C14: a create answered 201 returns the created task, persists its      *)
(* record and appends its id to the index, leaves a wake outstanding that  *)
(* is due no later than the task's nextRun (within the jitter window) when *)
(* a nextRun is set, and appends exactly one event: of kind "created",     *)
(* with the task's id and its nextRun.                                     *)
C14_CreateEffects ==
    [][IsCreated =>
        /\ NewId \notin DOMAIN tasks
        /\ index' = Append(index, NewId)
        /\ last'.task = Persisted
        /\ Persisted.id = NewId
        /\ \A id \in DOMAIN tasks : tasks'[id] = tasks[id]
        /\ Len(Batch) = 1
        /\ Len(CreatedEvents) = 1
        /\ CreatedEvents[1].taskId = NewId
        /\ CreatedEvents[1].nextRun = Persisted.nextRun
        /\ InLog(events', CreatedEvents[1])
        /\ Truthy(Persisted.nextRun) =>
              \E w \in WakesNext : w <= DateParse(Persisted.nextRun) + JITTER_MS]_vars

\* the elements of a sequence
Range(seq) == {seq[i] : i \in 1..Len(seq)}

(* C15: list-due returns exactly the persisted tasks that are enabled and  *)
(* have a nextRun <= now, each once; and when the operation before it was  *)
(* a wake cycle, with no time elapsed since, it returns the empty list.    *)
C15_DueListIsEnabledAndDue ==
    last.op = "due" =>
        /\ Range(last.due) =
              {tasks[id] : id \in {i \in DOMAIN tasks :
                  /\ tasks[i].enabled
                  /\ ~isNaN(DateParse(tasks[i].nextRun))
                  /\ DateParse(tasks[i].nextRun) <= now}}
        /\ Cardinality(Range(last.due)) = Len(last.due)
        /\ last.prev \in CycleOps => last.due = <<>>

\* list-due has returned some, but not all, of the tasks
C15_Witness ==
    /\ last.op = "due"
    /\ Len(last.due) > 0
    /\ Len(last.due) < Len(index)

(* C16: a wake cycle that finds no enabled task due (none with a nextRun   *)
(* at or before now plus the tolerance window) appends no event, writes no *)
(* last-run marker and leaves the index and every task record, nextRun     *)
(* included, as they were.                                                 *)
C16_IdleCycleChangesNothing ==
    [][(IsCycleStep /\ \A id \in DOMAIN tasks : ~DueNow(id)) =>
        /\ Batch = <<>>
        /\ UNCHANGED <<tasks, index, events, lastRun, uuid>>]_vars

\* a cycle has fired nothing although a task is pending for later and a
\* disabled task carries a nextRun that is past
C16_Witness ==
    /\ last.op \in CycleOps
    /\ \A i \in 1..Len(allEvents) :
          allEvents[i].kind = "fired" => allEvents[i].occurredAt # toISOString(now)
    /\ \E id \in DOMAIN tasks :
          tasks[id].enabled /\ DateParse(tasks[id].nextRun) > now
    /\ \E id \in DOMAIN tasks :
          /\ ~tasks[id].enabled
          /\ ~isNaN(DateParse(tasks[id].nextRun))
          /\ DateParse(tasks[id].nextRun) <= now

\* the task ids of the 'created' events ever appended, in order
RECURSIVE CreatedIds(_)
CreatedIds(evts) ==
    IF evts = <<>> THEN <<>>
    ELSE IF Head(evts).kind = "created"
         THEN <<Head(evts).taskId>> \o CreatedIds(Tail(evts))
         ELSE CreatedIds(Tail(evts))

(* C17: after every operation the index holds exactly the ids of the       *)
(* persisted task records, each once, in the order the tasks were created. *)
C17_IndexMatchesTasks ==
    /\ Range(index) = DOMAIN tasks
    /\ Cardinality(Range(index)) = Len(index)
    /\ index = CreatedIds(allEvents)
    /\ \A id \in DOMAIN tasks : tasks[id].id = id

\* two tasks exist and a wake cycle has fired since they were created
C17_Witness ==
    /\ Len(index) = 2
    /\ last.op \in CycleOps
    /\ index[2] \in DOMAIN lastRun

\* the last-run marker of task id is the same before and after the step
SameLastRun(id) ==
    /\ (id \in DOMAIN lastRun') = (id \in DOMAIN lastRun)
    /\ id \in DOMAIN lastRun => lastRun'[id] = lastRun[id]

(* C18: no step executes a disabled task: while enabled = false, no        *)
(* 'fired' event is appended for it, its last-run marker is not written    *)
(* and its record is not modified, also when its nextRun is set and past.  *)
C18_DisabledNeverRuns ==
    [][\A id \in DOMAIN tasks :
          ~tasks[id].enabled =>
              /\ tasks'[id] = tasks[id]
              /\ FiredOf(Batch, id) = <<>>
              /\ SameLastRun(id)]_vars

\* a wake cycle has run well after the nextRun of a task that was created
\* disabled, and the task has never run
C18_Witness ==
    /\ last.op \in CycleOps
    /\ \E id \in DOMAIN tasks :
          /\ ~tasks[id].enabled
          /\ ~isNaN(DateParse(tasks[id].nextRun))
          /\ now >= DateParse(tasks[id].nextRun) + TOLERANCE_MS
          /\ id \notin DOMAIN lastRun
          /\ FiredOf(allEvents, id) = <<>>

(* C19: a disabled task never becomes pending again: no create, list,     *)
(* run-due or wake step turns enabled back to true, and a task that a wake *)
(* cycle has disabled (it is disabled and has a last-run marker) has no    *)
(* nextRun, in every later state.                                          *)
C19_DisabledIsTerminal ==
    /\ [][\A id \in DOMAIN tasks : ~tasks[id].enabled => ~tasks'[id].enabled]_vars
    /\ [](\A id \in DOMAIN tasks :
            (~tasks[id].enabled /\ id \in DOMAIN lastRun) =>
                tasks[id].nextRun = Absent)

\* a later wake cycle has run after the clock moved past the time at which
\* a task was disabled
C19_Witness ==
    /\ last.op \in CycleOps
    /\ \E id \in DOMAIN lastRun :
          /\ ~tasks[id].enabled
          /\ tasks[id].nextRun = Absent
          /\ now > DateParse(lastRun[id])

----------------------------------------------------------------------------
(* Vocabulary of the fallback properties.  What the same handler, with the *)
(* same clock reads, does when setAlarm succeeds tells whether the step    *)
(* got as far as calling setAlarm, and for which candidate.                *)

\* the request body a created task came from
BodyOf(task) == Body(task.timing, task.recurrence, task.enabled)

\* the clock reads of the step: line 29 at its start, line 65 at its end
StepReads == [Reads(now) EXCEPT !.set = now', !.end = now']

\* the create of this step with a working setAlarm
DurableCreate == createTask(Cur, BodyOf(last'.task), StepReads, "ok")

\* the wake cycle of this step with a working setAlarm
DurableCycle == alarm(Cur, [Reads(now) EXCEPT !.set = now'], "ok")

\* the step is a create that called a setAlarm that failed
CreateDowngraded ==
    /\ IsCreated
    /\ last'.facility \in Unavailable
    /\ DurableCreate.w.pending # pending

\* the step is a wake cycle that called a setAlarm that failed
CycleDowngraded ==
    /\ IsCycleStep
    /\ last'.facility \in Unavailable
    /\ Truthy(DurableCycle.w.pending)

(* C20 as stated: when setAlarm is missing or throws during a schedule     *)
(* call the handler still succeeds with the same stored result (201 for a  *)
(* create, a completed cycle), pending is set to the candidate and a       *)
(* fallback timer is armed for the candidate time.                         *)
C20_FallbackTimerArmed ==
    /\ [][CreateDowngraded =>
            /\ <<tasks', index', events'>> =
                  <<DurableCreate.tasks, DurableCreate.index, DurableCreate.events>>
            /\ pending' = DurableCreate.w.pending
            /\ localTimers' = <<DateParse(pending')>>]_vars
    /\ [][CycleDowngraded =>
            /\ <<tasks', events', lastRun'>> =
                  <<DurableCycle.tasks, DurableCycle.events, DurableCycle.lastRun>>
            /\ pending' = DurableCycle.w.pending
            /\ localTimers' = <<DateParse(pending')>>]_vars

\* the fallback of lines 65-89 has armed a wake for candidate c: a timer
\* for c, or a queued microtask when c is not after the clock read of line 65
FallbackArmed(c) ==
    IF c > now' THEN localTimers' = <<c>> ELSE microtasks' >= 1

(* C20, amended: as above, but the fallback arms a timer for the candidate *)
(* time only while that time is still ahead at line 65; when it has been   *)
(* reached already, the fallback queues an immediate wake (a microtask)    *)
(* and arms no timer.                                                      *)
C20_FallbackArmsTimerOrMicrotask ==
    /\ [][CreateDowngraded =>
            /\ <<tasks', index', events'>> =
                  <<DurableCreate.tasks, DurableCreate.index, DurableCreate.events>>
            /\ pending' = DurableCreate.w.pending
            /\ FallbackArmed(DateParse(pending'))]_vars
    /\ [][CycleDowngraded =>
            /\ <<tasks', events', lastRun'>> =
                  <<DurableCycle.tasks, DurableCycle.events, DurableCycle.lastRun>>
            /\ pending' = DurableCycle.w.pending
            /\ FallbackArmed(DateParse(pending'))]_vars

\* a create whose setAlarm failed has queued an immediate wake, no timer
C20_Witness ==
    /\ last.op = "create"
    /\ last.status = 201
    /\ last.facility \in Unavailable
    /\ pending = toISOString(DateParse(last.task.nextRun))
    /\ microtasks = 1
    /\ localTimers = <<>>
    /\ now >= DateParse(pending)

----------------------------------------------------------------------------
(* The Worker's chat endpoint, POST /api/chat: handleChatRequest of        *)
(* src/src/index.ts.  A message is [role, chars] where chars is the length *)
(* of its content, or NotString when the content is not a string.  ai is   *)
(* what env.AI.run does: it answers with a raw response of some status, or *)
(* it throws.                                                              *)

MAX_MESSAGES == 40
MAX_TOTAL_CHARS == 25000
SYSTEM_PROMPT_CHARS == 78

NotString == -1

Message(role, chars) == [role |-> role, chars |-> chars]

SystemMessage == Message("system", SYSTEM_PROMPT_CHARS)

\* ChatStatus without the count test of line 91
RECURSIVE ChatStatus_NoCountLimit(_, _, _)
ChatStatus_NoCountLimit(isArray, messages, totalChars) ==
    IF ~isArray THEN 413
    ELSE IF messages = <<>> THEN 0
    ELSE LET m == Head(messages)
         IN  IF m.chars = NotString \/ m.chars = 0 THEN 400
             ELSE IF totalChars + m.chars > MAX_TOTAL_CHARS THEN 413
             ELSE ChatStatus_NoCountLimit(isArray, Tail(messages), totalChars + m.chars)

\* lines 98-112: the loop over the messages; 0 when it ends without a return
RECURSIVE ChatLoop(_, _)
ChatLoop(messages, totalChars) ==
    IF messages = <<>> THEN 0
    ELSE LET m == Head(messages)
         IN  IF m.chars = NotString \/ m.chars = 0 THEN 400
             ELSE IF totalChars + m.chars > MAX_TOTAL_CHARS THEN 413
             ELSE ChatLoop(Tail(messages), totalChars + m.chars)

\* lines 91-112: the status of the validation, 0 when the payload passes;
\* called with totalChars = 0 (line 97)
ChatStatus(isArray, messages, totalChars) ==
    IF ~isArray \/ Len(messages) > MAX_MESSAGES THEN 413
    ELSE ChatLoop(messages, totalChars)

\* lines 115-117
ChatPayload(messages) ==
    IF \E i \in 1..Len(messages) : messages[i].role = "system" THEN messages
    ELSE <<SystemMessage>> \o messages

\* handleChatRequest: the response status, the payloads handed to
\* env.AI.run, and whether the body returned is the model's
handleChatRequest(req, ai) ==
    LET status == ChatStatus(req.isArray, req.messages, 0)
    IN  IF ~req.json THEN [status |-> 500, calls |-> <<>>, fromModel |-> FALSE]
        ELSE IF status # 0 THEN [status |-> status, calls |-> <<>>, fromModel |-> FALSE]
        ELSE IF ai.throws
             THEN [status |-> 500, calls |-> <<ChatPayload(req.messages)>>,
                   fromModel |-> FALSE]
             ELSE [status |-> ai.status, calls |-> <<ChatPayload(req.messages)>>,
                   fromModel |-> TRUE]

\* statuses of the raw response of the model, or a throw
AiOutcomes ==
    {[throws |-> FALSE, status |-> 200], [throws |-> FALSE, status |-> 429],
     [throws |-> TRUE, status |-> 0]}

MaxChatMessages == 42

\* n messages of the same length, the first of them a system message or not
Uniform(n, chars, withSystem) ==
    [i \in 1..n |-> Message(IF withSystem /\ i = 1 THEN "system" ELSE "user", chars)]

ChatRequests ==
    {[json |-> TRUE, isArray |-> TRUE, messages |-> Uniform(n, c, sys)] :
        n \in 0..MaxChatMessages, c \in {1, 700}, sys \in BOOLEAN}
    \cup {[json |-> TRUE, isArray |-> TRUE,
           messages |-> Uniform(n, 1, FALSE) \o <<Message("user", c)>>] :
            n \in {0, 39, 40}, c \in {0, NotString}}
    \cup {[json |-> TRUE, isArray |-> FALSE, messages |-> <<>>],
          [json |-> FALSE, isArray |-> TRUE, messages |-> <<>>]}

Chat ==
    \E req \in ChatRequests, ai \in AiOutcomes :
        LET R == handleChatRequest(req, ai)
        IN  /\ last' = [op |-> "chat", status |-> R.status, request |-> req,
                        ai |-> ai, calls |-> R.calls, fromModel |-> R.fromModel]
            /\ UNCHANGED <<now, uuid, storageVars, wakeVars, ticks, restarts,
                           allEvents>>

SpecChat == Init /\ [][Chat]_vars

\* the total length of the contents
RECURSIVE TotalChars(_)
TotalChars(messages) ==
    IF messages = <<>> THEN 0 ELSE Head(messages).chars + TotalChars(Tail(messages))

\* the payload is within the limits of the endpoint
WithinLimits(req) ==
    /\ req.json
    /\ req.isArray
    /\ Len(req.messages) <= MAX_MESSAGES
    /\ \A i \in 1..Len(req.messages) : req.messages[i].chars >= 1
    /\ TotalChars(req.messages) <= MAX_TOTAL_CHARS

(* C21: POST /api/chat with more than 40 messages is answered 413 and the  *)
(* model is not invoked; a payload within the limits is handed to the      *)
(* model once (with the system prompt put first when it has none) and,     *)
(* when the model answers, its response is what is returned: status 200    *)
(* for a model that answers 200.                                           *)
C21_ChatLimits ==
    last.op = "chat" =>
        /\ (last.request.json /\ last.request.isArray
                /\ Len(last.request.messages) > MAX_MESSAGES) =>
              (last.status = 413 /\ last.calls = <<>>)
        /\ WithinLimits(last.request) =>
              /\ Len(last.calls) = 1
              /\ \E k \in {0, 1} :
                    SubSeq(last.calls[1], k + 1, Len(last.calls[1]))
                        = last.request.messages
              /\ last.calls[1][1].role = "system"
              /\ ~last.ai.throws => (last.fromModel /\ last.status = last.ai.status)

\* 41 short messages have just been rejected
C21_Witness ==
    /\ last.op = "chat"
    /\ Len(last.request.messages) = MAX_MESSAGES + 1
    /\ TotalChars(last.request.messages) <= MAX_TOTAL_CHARS
    /\ last.status = 413

(* C22: a create answered 201 whose task has a nextRun at or before now +  *)
(* 50 ms, for which scheduleAlarm arms nothing, has the task fired within  *)
(* the same request: when the create returns the task has a "fired" event, *)
(* or a fallback fire is queued or a wake is already due that will fire it *)
(* with no further request.                                                *)
C22_NearPastCreateFiresAtOnce ==
    [][(IsCreated /\ Truthy(Persisted.nextRun)
            /\ DateParse(Persisted.nextRun) <= now + JITTER_MS) =>
        \/ FiredOf(allEvents', NewId) # <<>>
        \/ microtasks' > 0
        \/ \E w \in WakesNext : w <= now' + JITTER_MS]_vars

\* candidates at or after the pending timestamp
NotBeforePending == {DateParse(pending) + d : d \in {0, 1, MINUTE_MS}}

(* C23: scheduleAlarm called with a candidate while pending is set and     *)
(* pending <= candidate returns with pending, lastFired, the durable alarm *)
(* and the fallback timers as they were, whatever setAlarm would do; and a *)
(* step that is not a wake cycle, taken while pending is set, leaves       *)
(* pending as it is or moves it to a strictly earlier time.                *)
C23_LaterCandidateChangesNothing ==
    /\ [](Truthy(pending) =>
            \A date \in NotBeforePending, f \in Facilities :
                scheduleAlarm(Cur.w, date, now, now, f) = Cur.w)
    /\ [][(IsCreated /\ Truthy(pending) /\ Truthy(Persisted.nextRun)
              /\ DateParse(pending) <= DateParse(Persisted.nextRun)) =>
            UNCHANGED wakeVars]_vars
    /\ [][(~IsCycleStep /\ Truthy(pending)) =>
            \/ pending' = pending
            \/ /\ Truthy(pending')
               /\ DateParse(pending') < DateParse(pending)]_vars

\* a task has been created for a time after the pending wake, which is
\* still the one that was pending
C23_Witness ==
    /\ last.op = "create"
    /\ last.status = 201
    /\ Truthy(last.task.nextRun)
    /\ DateParse(last.task.nextRun) > now + JITTER_MS
    /\ Truthy(pending)
    /\ DateParse(pending) < DateParse(last.task.nextRun)

(* C24: scheduleAlarm called with the timestamp of lastFired returns with  *)
(* pending, the durable alarm, the fallback timers and the queued fires as *)
(* they were, whatever setAlarm would do; and what a wake cycle leaves     *)
(* pending, and any durable alarm or fallback timer it arms, is never for  *)
(* the timestamp the cycle recorded as last fired.                         *)
C24_LastFiredNeverRearmed ==
    /\ [](Truthy(lastFired) =>
            \A f \in Facilities :
                scheduleAlarm(Cur.w, DateParse(lastFired), now, now, f) = Cur.w)
    /\ [][IsCycleStep =>
            /\ Truthy(pending') => pending' # lastFired'
            /\ durableAlarm' # durableAlarm => durableAlarm' # DateParse(lastFired')
            /\ localTimers' # localTimers =>
                  \A i \in 1..Len(localTimers') :
                      localTimers'[i] # DateParse(lastFired')]_vars

\* a cycle has ended with nothing pending although the earliest task ahead
\* is due at the timestamp recorded as last fired
C24_Witness ==
    /\ last.op \in CycleOps
    /\ ~Truthy(pending)
    /\ Truthy(lastFired)
    /\ DateParse(lastFired) > now + JITTER_MS
    /\ \E id \in DOMAIN tasks : tasks[id].enabled /\ tasks[id].nextRun = lastFired

\* the immediate fires a step has queued (0 or 1): the queue after the
\* step against the queue the handler started with
QueuedFires ==
    microtasks' - (IF last'.op = "microtask" THEN microtasks - 1 ELSE microtasks)

(* C25: at most one fallback timer is armed at any time; a step that arms  *)
(* a fallback timer leaves that timer alone, armed for the pending         *)
(* timestamp; and a step that queues a fire with non-positive delay does   *)
(* not run it: the candidate is still pending and not yet recorded as      *)
(* fired when the handler ends, and a create that queues one appends no    *)
(* "fired" event.                                                          *)
C25_OneTimerAndDeferredFire ==
    /\ [](Len(localTimers) <= 1)
    /\ [][(localTimers' # localTimers /\ localTimers' # <<>>) =>
            localTimers' = <<DateParse(pending')>>]_vars
    /\ [][(IsCreated \/ IsCycleStep) =>
            /\ QueuedFires \in {0, 1}
            /\ QueuedFires = 1 =>
                  /\ Truthy(pending')
                  /\ DateParse(pending') <= now'
                  /\ lastFired' # pending'
                  /\ IsCreated => \A i \in 1..Len(Batch) : Batch[i].kind # "fired"]_vars

\* a create has armed a fallback timer for its task while a later task,
\* which had a timer of its own, is waiting
C25_Witness ==
    /\ last.op = "create"
    /\ last.status = 201
    /\ localTimers = <<DateParse(last.task.nextRun)>>
    /\ \E id \in DOMAIN tasks :
          /\ tasks[id].enabled
          /\ ~isNaN(DateParse(tasks[id].nextRun))
          /\ DateParse(tasks[id].nextRun) > DateParse(last.task.nextRun)
          /\ DateParse(tasks[id].createdAt) < DateParse(last.task.createdAt)

----------------------------------------------------------------------------
(* Every way into alarm(): the durable alarm, the fallback timer, the      *)
(* queued microtask, run-due and force-run, with setAlarm working or       *)
(* throwing and the clock moving inside the handlers.                      *)

ForceRunLagged(F) == CycleLagged("force-run", Cur.w, F)

DurableWakeLagged(F) ==
    /\ durableAlarm # NoAlarm
    /\ now >= durableAlarm
    /\ CycleLagged("alarm", [Cur.w EXCEPT !.durableAlarm = NoAlarm], F)

NextPaths ==
    \/ Tick
    \/ CreateLagged(Flaky)
    \/ RunDueLagged(Flaky)
    \/ ForceRunLagged(Flaky)
    \/ DurableWakeLagged(Flaky)
    \/ TimerWake(Flaky)
    \/ MicrotaskWake(Flaky)

SpecPaths == Init /\ [][NextPaths]_vars

(* C26: after every wake cycle, whichever way alarm() was entered (durable *)
(* alarm, fallback timer, queued microtask, run-due, force-run), lastFired *)
(* is the timestamp that was pending when the cycle began, or the time the *)
(* cycle began when none was pending; and the pending timestamp was        *)
(* cleared: what is pending after the cycle is nothing, or a timestamp the *)
(* cycle itself armed, ahead of the clock and different from the old one.  *)
C26_CycleRecordsAndClearsPending ==
    [][IsCycleStep =>
        /\ lastFired' = (IF Truthy(pending) THEN pending ELSE toISOString(now))
        /\ \/ pending' = Absent
           \/ /\ pending' # pending
              /\ DateParse(pending') > now + JITTER_MS]_vars

\* a fallback timer has fired late: lastFired is the timestamp it was armed
\* for, not the time of the cycle
C26_Witness ==
    /\ last.op = "fallback"
    /\ Truthy(lastFired)
    /\ DateParse(lastFired) < now
    /\ \E id \in DOMAIN lastRun : DateParse(lastRun[id]) > DateParse(lastFired)

----------------------------------------------------------------------------
(* Wake cycles that take time: the clock moves while alarm() waits for     *)
(* storage, between its first read (line 265) and the read of line 332;    *)
(* a task fired by the cycle reads the clock (lines 285, 295) at the start *)
(* or at the end of that span.                                             *)

Durations == {0, 490, 600}

SlowCycle(op, w, F) ==
    \E f \in F, d \in Durations :
        \E l \in {0, d} :
            /\ Install(alarm([Cur EXCEPT !.w = w],
                             [start |-> now, next |-> now, loop |-> now + l,
                              sched |-> now + d, end |-> now + d, set |-> now + d],
                             f))
            /\ last' = [op |-> op, status |-> 200, again |-> last.op \in CycleOps,
                        facility |-> f, took |-> d, firedAt |-> now + l]
            /\ Advance(d)
            /\ UNCHANGED restarts

SlowRunDue(F) == SlowCycle("run-due", Cur.w, F)

SlowDurableWake(F) ==
    /\ durableAlarm # NoAlarm
    /\ now >= durableAlarm
    /\ SlowCycle("alarm", [Cur.w EXCEPT !.durableAlarm = NoAlarm], F)

NextSlow ==
    \/ Tick
    \/ CreateAccepted(Durable)
    \/ SlowRunDue(Durable)
    \/ SlowDurableWake(Durable)

SpecSlow == Init /\ [][NextSlow]_vars

\* the nextRun times of the enabled tasks after the step
CandidatesAfter ==
    {DateParse(tasks'[id].nextRun) :
        id \in {i \in DOMAIN tasks' :
                    tasks'[i].enabled /\ ~isNaN(DateParse(tasks'[i].nextRun))}}

Min(S) == CHOOSE x \in S : \A y \in S : x <= y

\* what a cycle leaves pending when it hands target to scheduleAlarm at the
\* end of the step: scheduleAlarm drops a target within the jitter window
\* and the timestamp last fired
PendingFor(target) ==
    IF target <= now' + JITTER_MS \/ toISOString(target) = lastFired'
    THEN Absent ELSE toISOString(target)

(* C27, as stated: what a wake cycle leaves pending is after the time the  *)
(* cycle ends; with no enabled task holding a nextRun after the cycle      *)
(* nothing is handed over, and otherwise the time handed over is the       *)
(* earliest such nextRun when it is ahead of the clock at the end of the   *)
(* cycle, and the clock + 500 ms when it is not.                           *)
C27_TargetIsEarliestWhenAhead ==
    [][IsCycleStep =>
        /\ Truthy(pending') => DateParse(pending') > now'
        /\ CandidatesAfter = {} =>
              (pending' = Absent /\ durableAlarm' \in {durableAlarm, NoAlarm})
        /\ CandidatesAfter # {} =>
              pending' = PendingFor(IF Min(CandidatesAfter) > now'
                                    THEN Min(CandidatesAfter)
                                    ELSE now' + ADJUST_MS)]_vars

(* C27, amended: as above, but the earliest nextRun is handed over as is   *)
(* only when it is more than 25 ms ahead of the clock at the end of the    *)
(* cycle; one that is at most 25 ms ahead is replaced by the clock +       *)
(* 500 ms like one that is past.                                           *)
C27_TargetAheadOfNow ==
    [][IsCycleStep =>
        /\ Truthy(pending') => DateParse(pending') > now'
        /\ CandidatesAfter = {} =>
              (pending' = Absent /\ durableAlarm' \in {durableAlarm, NoAlarm})
        /\ CandidatesAfter # {} =>
              pending' = PendingFor(IF Min(CandidatesAfter) > now' + MIN_FUTURE_MS
                                    THEN Min(CandidatesAfter)
                                    ELSE now' + ADJUST_MS)]_vars

\* a cycle that took time has ended less than 25 ms before the nextRun of
\* a waiting task and has armed the wake half a second ahead
C27_Witness ==
    /\ last.op \in CycleOps
    /\ Truthy(pending)
    /\ DateParse(pending) = now + ADJUST_MS
    /\ \E id \in DOMAIN tasks :
          /\ tasks[id].enabled
          /\ DateParse(tasks[id].nextRun) > now
          /\ DateParse(tasks[id].nextRun) <= now + MIN_FUTURE_MS

\* firing the task fails to parse its recurrence (lines 292-306)
ParseFails(task) ==
    ~SingleRun(task) /\ isNaN(computeNextFromSimpleCron(CronExpr(task), 0))

(* C28: in a wake cycle that finds due an enabled task whose recurrence    *)
(* does not parse, every enabled due task of the index, listed before or   *)
(* after that one, is fired: each has exactly one "fired" event in the     *)
(* cycle's batch, the batch lists them in index order, and the batch is    *)
(* written to the log in one append.                                       *)
C28_ParseFailureDoesNotStopCycle ==
    [][(IsCycleStep /\ \E bad \in DOMAIN tasks : DueNow(bad) /\ ParseFails(tasks[bad])) =>
        /\ \A id \in DOMAIN tasks :
              DueNow(id) =>
                  /\ Len(FiredOf(Batch, id)) = 1
                  /\ id \in DOMAIN lastRun'
                  /\ lastRun'[id] = FiredOf(Batch, id)[1].occurredAt
        /\ [i \in 1..Len(Batch) |-> Batch[i].taskId]
              = SelectSeq(index, LAMBDA id : DueNow(id))
        /\ events' = appendEvents(events, Batch)]_vars

\* a cycle has fired two tasks, the first of them disabled because its
\* recurrence did not parse
C28_Witness ==
    /\ last.op \in CycleOps
    /\ Len(allEvents) >= 2
    /\ LET a == allEvents[Len(allEvents) - 1]
           b == allEvents[Len(allEvents)]
       IN  /\ a.kind = "fired"
           /\ b.kind = "fired"
           /\ a.taskId # b.taskId
           /\ a.occurredAt = b.occurredAt
           /\ a.note = "Recurring task disabled (invalid cron)"
           /\ lastRun[a.taskId] = lastRun[b.taskId]

----------------------------------------------------------------------------
(* computeNextFromSimpleCron on its own: expressions assembled from parts  *)
(* (whitespace around, head, digits of N, the four other fields), so that *)
(* the expected result is known from the parts.                            *)

NoDigits == -1

\* the decimal digits of n >= 0
RECURSIVE Decimal(_)
Decimal(n) ==
    LET d == <<"0", "1", "2", "3", "4", "5", "6", "7", "8", "9">>[(n % 10) + 1]
    IN  IF n < 10 THEN <<d>> ELSE Decimal(n \div 10) \o <<d>>

CronHeads == {<<"*", "/">>, <<"*">>, <<"/">>, <<"*", "/", "-">>, <<"*", " ", "/">>}

CronMinutes == {NoDigits, 0, 1, 5, 15, 120}

CronTails ==
    {CronTail,
     <<" ", "*", " ", "*", " ", "*">>,
     CronTail \o <<" ", "*">>,
     <<" ", " ", "*", " ", "*", " ", "*", " ", "*">>,
     <<" ", "*", " ", "*", " ", "*", " ", "1">>,
     <<".", "5">> \o CronTail}

CronParts ==
    [padded : BOOLEAN, head : CronHeads, n : CronMinutes, zero : BOOLEAN,
     tail : CronTails]

\* the expression made of the parts
CronOf(p) ==
    (IF p.padded THEN <<" ">> ELSE <<>>)
        \o p.head
        \o (IF p.zero THEN <<"0">> ELSE <<>>)
        \o (IF p.n = NoDigits THEN <<>> ELSE Decimal(p.n))
        \o p.tail
        \o (IF p.padded THEN <<"\n">> ELSE <<>>)

Froms == {0, 800}

ComputeNext ==
    \E p \in CronParts, from \in Froms :
        /\ last' = [op |-> "computeNext", status |-> 0, parts |-> p, from |-> from,
                    result |-> computeNextFromSimpleCron(CronOf(p), from)]
        /\ UNCHANGED <<now, uuid, storageVars, wakeVars, ticks, restarts,
                       allEvents>>

SpecCron == Init /\ [][ComputeNext]_vars

\* the parts make an expression of the form */N * * * * with N > 0
EveryNMinutes(p) ==
    /\ p.head = <<"*", "/">>
    /\ p.n >= 1
    /\ p.tail = CronTail

(* C29: computeNextFromSimpleCron(expr, from) is from + N minutes when the *)
(* trimmed expression is of the form "*" "/" N " * * * *" with N a decimal *)
(* integer greater than 0, and is the null result for every other          *)
(* expression, N = 0 and "* * * * *" included; a result that is not null   *)
(* is strictly after from.                                                 *)
C29_ComputeNext ==
    last.op = "computeNext" =>
        /\ EveryNMinutes(last.parts) =>
              last.result = last.from + last.parts.n * MINUTE_MS
        /\ ~EveryNMinutes(last.parts) => isNaN(last.result)
        /\ ~isNaN(last.result) => last.result > last.from
        /\ CronOf([padded |-> FALSE, head |-> <<"*">>, n |-> NoDigits,
                   zero |-> FALSE, tail |-> CronTail]) = Wildcard
        /\ isNaN(computeNextFromSimpleCron(Wildcard, last.from))
        /\ isNaN(computeNextFromSimpleCron(EveryZero, last.from))

\* " */015 * * * *" followed by a newline has given from + 15 minutes
C29_Witness ==
    /\ last.op = "computeNext"
    /\ last.parts.padded
    /\ last.parts.zero
    /\ last.parts.n = 15
    /\ last.from = 800
    /\ last.result = 800 + 15 * MINUTE_MS

----------------------------------------------------------------------------
(* Recurring tasks over several periods: the clock moves by about a        *)
(* minute between requests, so that a task is fired late, on time, or      *)
(* early within the tolerance window, several times in a row.              *)

MaxDriftTicks == 3

DriftSteps == {59800, 60000, 60300}

DriftTick ==
    /\ ticks < MaxDriftTicks
    /\ \E d \in DriftSteps : now' = now + d
    /\ ticks' = ticks + 1
    /\ last' = [op |-> "tick", status |-> 0]
    /\ UNCHANGED <<uuid, storageVars, wakeVars, restarts, allEvents>>

\* the bodies of tasks that a cycle reschedules
DriftBodies ==
    {Body(Recurring(Str(EveryMinute)), Str(Wildcard), TRUE),
     Body(Delay(Num(1)), Str(EveryMinutePadded), TRUE)}

DriftCreate ==
    \E body \in DriftBodies :
        /\ CreateStatus(body) = 201
        /\ Len(index) < MaxTasks
        /\ LET R == createTask(Cur, body, Reads(now), "ok")
           IN  /\ Install(R)
               /\ last' = [op |-> "create", status |-> 201, facility |-> "ok",
                           task |-> JsonTask(R.task)]
        /\ UNCHANGED <<now, ticks, restarts>>

NextDrift ==
    \/ DriftTick
    \/ DriftCreate
    \/ RunDue(Durable)
    \/ DurableWake(Durable)

SpecDrift == Init /\ [][NextDrift]_vars

\* the period of the task in ms: N minutes
Interval(id) == computeNextFromSimpleCron(CronExpr(tasks[id]), 0)

\* the nextRun values task id has had: the one it was created with, then
\* the one set by each firing
Schedule(id) ==
    LET created == SelectSeq(allEvents,
                             LAMBDA e : e.taskId = id /\ e.kind = "created")
        fired == FiredOf(allEvents, id)
    IN  <<DateParse(created[1].nextRun)>>
            \o [j \in 1..Len(fired) |-> DateParse(fired[j].nextRun)]

\* the time of the j-th firing of task id
FiringTime(id, j) == DateParse(FiredOf(allEvents, id)[j].occurredAt)

\* how much later than the nextRun then set the j-th firing of task id ran
Lateness(id, j) == FiringTime(id, j) - Schedule(id)[j]

\* the tasks a cycle reschedules, and the numbers of their firings
Rescheduled == {id \in DOMAIN tasks : ~ParseFails(tasks[id]) /\ ~SingleRun(tasks[id])}

Firings(id) == 1..Len(FiredOf(allEvents, id))

NotYetDue(id) ==
    /\ tasks[id].enabled
    /\ ~isNaN(DateParse(tasks[id].nextRun))
    /\ DateParse(tasks[id].nextRun) > now + TOLERANCE_MS

(* C31: a wake cycle fires exactly the enabled tasks whose nextRun is at   *)
(* or before the start of the cycle + 250 ms: each of them gets one        *)
(* "fired" event and a last-run marker, and an enabled task whose nextRun  *)
(* is later than that keeps its record and its last-run marker and gets no *)
(* event, also when the cycle ends after that nextRun.                     *)
C31_FiresExactlyWithinTolerance ==
    [][IsCycleStep =>
        \A id \in DOMAIN tasks :
            /\ DueNow(id) =>
                  /\ Len(FiredOf(Batch, id)) = 1
                  /\ id \in DOMAIN lastRun'
                  /\ lastRun'[id] = FiredOf(Batch, id)[1].occurredAt
            /\ FiredOf(Batch, id) # <<>> => DueNow(id)
            /\ NotYetDue(id) =>
                  /\ tasks'[id] = tasks[id]
                  /\ EventsOf(Batch, id) = <<>>
                  /\ SameLastRun(id)]_vars

\* a cycle that took time has left alone a task whose nextRun was reached
\* while the cycle ran
C31_Witness ==
    /\ last.op \in CycleOps
    /\ last.status = 200
    /\ \E id \in DOMAIN tasks :
          /\ tasks[id].enabled
          /\ id \notin DOMAIN lastRun
          /\ ~isNaN(DateParse(tasks[id].nextRun))
          /\ DateParse(tasks[id].nextRun) <= now

\* some enabled task has a nextRun after the step
SomeTaskWaiting == CandidatesAfter # {}

(* C32: after every create answered 201 and every wake cycle, if some      *)
(* enabled task has a nextRun then a wake is outstanding: a durable alarm, *)
(* a fallback timer or a queued immediate fire.                            *)
C32_NoWakeLost ==
    [][((IsCreated \/ IsCycleStep) /\ SomeTaskWaiting) =>
        (WakesNext # {} \/ microtasks' > 0)]_vars

(* C33: in every reachable state pending is set if and only if a wake is  *)
(* outstanding (a durable alarm, a fallback timer or a queued immediate    *)
(* fire), and every armed alarm or timer is for the pending timestamp.     *)
C33_PendingAgreesWithWake ==
    /\ Truthy(pending) <=> (Wakes # {} \/ microtasks > 0)
    /\ Wakes # {} => Wakes = {DateParse(pending)}

----------------------------------------------------------------------------
(* Storage operations that fail.  A storage call that throws leaves its    *)
(* key as it was and ends the handler: in the create handler the catch of  *)
(* line 249 answers 400, in alarm() the exception leaves the method, and   *)
(* run-due is answered with an error.  What the handler wrote before the   *)
(* failing call stays written.                                             *)

MaxIds == 6

\* the storage calls of the create handler that may throw: the put of the
\* task record (line 222), the read or write of the index (lines 223-225),
\* the read or write of the event log in appendEvents (line 235)
CreateCalls == {"task", "index", "events"}

\* lines 193-235 up to the call that throws
createTaskFailing(S, body, rd, facility, failed) ==
    LET R == createTask(S, body, rd, facility)
    IN  CASE failed = "task" ->
                [tasks |-> S.tasks, index |-> S.index, events |-> S.events,
                 lastRun |-> S.lastRun, uuid |-> S.uuid + 1, w |-> S.w,
                 fired |-> <<>>]
          [] failed = "index" ->
                [tasks |-> R.tasks, index |-> S.index, events |-> S.events,
                 lastRun |-> S.lastRun, uuid |-> S.uuid + 1, w |-> S.w,
                 fired |-> <<>>]
          [] failed = "events" ->
                [tasks |-> R.tasks, index |-> R.index, events |-> S.events,
                 lastRun |-> S.lastRun, uuid |-> R.uuid, w |-> R.w,
                 fired |-> <<>>]

\* bodies of the creates: a task that is due at once, one due in a second,
\* one that recurs
StorageBodies ==
    {Body(Datetime(toISOString(0)), NullStr, TRUE),
     Body(Delay(Num(1)), NullStr, TRUE),
     Body(Recurring(Str(EveryMinute)), Str(Wildcard), TRUE)}

\* POST /tasks answered 201
StorageCreate(F) ==
    \E body \in StorageBodies, f \in F :
        /\ CreateStatus(body) = 201
        /\ Len(index) < MaxTasks
        /\ LET R == createTask(Cur, body, Reads(now), f)
           IN  /\ Install(R)
               /\ last' = [op |-> "create", status |-> 201, facility |-> f,
                           task |-> JsonTask(R.task)]
        /\ UNCHANGED <<now, ticks, restarts>>

\* POST /tasks answered 400 by the catch of lines 249-251
CreateFailing(F) ==
    \E body \in StorageBodies, f \in F, failed \in CreateCalls :
        /\ CreateStatus(body) = 201
        /\ Len(index) < MaxTasks
        /\ Cardinality(DOMAIN tasks) < MaxTasks
        /\ uuid < MaxIds
        /\ Install(createTaskFailing(Cur, body, Reads(now), f, failed))
        /\ last' = [op |-> "create", status |-> 400, failed |-> failed]
        /\ UNCHANGED <<now, ticks, restarts>>

\* alarm() whose appendEvents call (line 326) throws: lines 261-324 have
\* run, lines 329-337 have not
alarmFailing(S, rd, facility) ==
    LET st == AlarmLoop([tasks |-> S.tasks, lastRun |-> S.lastRun,
                         earliest |-> NoEarliest, fired |-> <<>>, uuid |-> S.uuid],
                        S.index, rd.start + TOLERANCE_MS, rd.loop)
    IN  [tasks |-> st.tasks, index |-> S.index, events |-> S.events,
         lastRun |-> st.lastRun, uuid |-> st.uuid,
         w |-> [S.w EXCEPT !.pending = Absent,
                           !.lastFired = IF Truthy(S.w.pending) THEN S.w.pending
                                         ELSE toISOString(rd.start)],
         fired |-> <<>>]

\* POST /tasks/run-due answered with an error: the cycle fired a task and
\* appendEvents threw; nothing was appended
RunDueFailing(F) ==
    \E f \in F :
        /\ Install(alarmFailing(Cur, Reads(now), f))
        /\ tasks' # tasks
        /\ last' = [op |-> "run-due", status |-> 500, again |-> last.op \in CycleOps,
                    facility |-> f]
        /\ UNCHANGED <<now, ticks, restarts>>

NextStorage ==
    \/ StorageCreate(Durable)
    \/ CreateFailing(Durable)
    \/ RunDue(Durable)
    \/ RunDueFailing(Durable)

SpecStorage == Init /\ [][NextStorage]_vars

(* C35: a create answered 400 leaves durable storage (task records, index, *)
(* event log, last-run markers) and the armed wake (pending, the durable   *)
(* alarm, the fallback timers) as they were, also when the 400 comes from  *)
(* the catch after a storage call failed.                                  *)
C35_RejectedCreateWritesNothing ==
    [][(last'.op = "create" /\ last'.status = 400) =>
        UNCHANGED <<tasks, index, events, lastRun, pending, durableAlarm,
                    localTimers>>]_vars

\* a cycle has fired task id: its last-run marker is written and its
\* record is disabled or rescheduled from the time of the marker
HasFired(id) ==
    /\ id \in DOMAIN lastRun
    /\ \/ ~tasks[id].enabled
       \/ DateParse(tasks[id].nextRun) >= DateParse(lastRun[id]) + MINUTE_MS

(* C36: while the log has not overflowed, every task that a wake cycle has *)
(* fired has in the stored log a "fired" event that carries the time of    *)
(* its last-run marker, also after a cycle whose storage call failed       *)
(* between the update of the task and the append of the batch.             *)
C36_FiredTaskHasEvent ==
    Len(allEvents) <= EVENT_HISTORY_LIMIT =>
        \A id \in DOMAIN tasks :
            HasFired(id) =>
                \E i \in 1..Len(events) :
                    /\ events[i].kind = "fired"
                    /\ events[i].taskId = id
                    /\ events[i].occurredAt = lastRun[id]

\* the fields of a task record that a cycle never assigns
FrameOf(task) ==
    [id |-> task.id, title |-> task.title, createdAt |-> task.createdAt,
     timing |-> task.timing, recurrence |-> task.recurrence]

(* C39: a wake cycle deletes and adds no task record, leaves the index as  *)
(* it was, leaves the record of every task that is not due as it was, and  *)
(* changes nothing but enabled and nextRun in the record of a task it      *)
(* fires.                                                                  *)
C39_CycleChangesOnlyEnabledAndNextRun ==
    [][IsCycleStep =>
        /\ index' = index
        /\ DOMAIN tasks' = DOMAIN tasks
        /\ \A id \in DOMAIN tasks :
              /\ FrameOf(tasks'[id]) = FrameOf(tasks[id])
              /\ ~DueNow(id) => tasks'[id] = tasks[id]]_vars

\* a cycle has fired one task, disabling it for its invalid cron, and has
\* rescheduled another, while the index holds both
C39_Witness ==
    /\ last.op \in CycleOps
    /\ Len(index) = 2
    /\ Len(allEvents) >= 2
    /\ LET a == allEvents[Len(allEvents) - 1]
           b == allEvents[Len(allEvents)]
       IN  /\ a.kind = "fired"
           /\ b.kind = "fired"
           /\ a.occurredAt = b.occurredAt
           /\ {a.note, b.note} = {"Recurring task disabled (invalid cron)",
                                  "Recurring task rescheduled"}

----------------------------------------------------------------------------
(* A client that polls GET /tasks/events with the "latest" of its previous *)
(* response as the since parameter.  last holds the client: the cursor it  *)
(* sent, the response, and in received every event it has been given so    *)
(* far; the requests of other clients leave these fields alone.            *)

MaxReceived == 3

HasPolled == "received" \in DOMAIN last

\* last after a request of another client
Others(op, status) ==
    IF HasPolled THEN [last EXCEPT !.op = op, !.status = status]
    ELSE [op |-> op, status |-> status]

PollTick ==
    /\ ticks < MaxTicks
    /\ \E d \in Steps : now' = now + d
    /\ ticks' = ticks + 1
    /\ last' = Others("tick", 0)
    /\ UNCHANGED <<uuid, storageVars, wakeVars, restarts, allEvents>>

PollCreate(F) ==
    \E body \in StorageBodies, f \in F :
        /\ CreateStatus(body) = 201
        /\ Len(index) < MaxTasks
        /\ Install(createTask(Cur, body, Reads(now), f))
        /\ last' = Others("create", 201)
        /\ UNCHANGED <<now, ticks, restarts>>

PollRunDue(F) ==
    \E f \in F :
        /\ Install(alarm(Cur, Reads(now), f))
        /\ last' = Others("run-due", 200)
        /\ UNCHANGED <<now, ticks, restarts>>

\* lines 115-121 for the polling client: the first request has no since
\* parameter, every later one sends the latest of the response before it
Poll ==
    LET since == IF HasPolled THEN last.latest ELSE Absent
        out == getEvents(events, since)
    IN  /\ HasPolled => Len(last.received) < MaxReceived
        /\ last' = [op |-> "events", status |-> 200, since |-> since,
                    events |-> out,
                    latest |-> IF Len(out) # 0 THEN out[Len(out)].occurredAt
                               ELSE Absent,
                    received |-> IF HasPolled THEN last.received \o out ELSE out]
        /\ UNCHANGED <<now, uuid, storageVars, wakeVars, ticks, restarts,
                       allEvents>>

NextPoll ==
    \/ PollTick
    \/ PollCreate(Durable)
    \/ PollRunDue(Durable)
    \/ Poll

SpecPoll == Init /\ [][NextPoll]_vars

(* C37: after each poll the client has been given every event appended so *)
(* far exactly once, in the order of the log: none twice, none skipped,    *)
(* also when an event carries the time of the bookmark and when a poll     *)
(* returned no events.                                                     *)
C37_PollingDeliversEachEventOnce ==
    (last.op = "events" /\ Len(allEvents) <= EVENT_HISTORY_LIMIT) =>
        last.received = allEvents

----------------------------------------------------------------------------
(* Handlers that overlap.  Every await of a handler is a point where the   *)
(* fallback's callbacks may run: the setTimeout callback of lines 83-88    *)
(* and the microtask of lines 69-72 call alarm() themselves, and nothing   *)
(* in the class keeps them out while another handler waits for storage.    *)
(* A handler waits at most at one place here: the create handler inside    *)
(* appendEvents (line 235), after it has written the task and the index    *)
(* and armed the wake; a run-due cycle at the put of line 286, holding the *)
(* task it read at line 278.  last holds the waiting handler: its position *)
(* and its local variables.  The clock stands still while a handler waits. *)

NoSetAlarm == {"absent"}

AwaitBodies ==
    {Body(Delay(Num(1)), NullStr, TRUE),
     Body(Datetime(AltIso(1000)), NullStr, TRUE),
     Body(Recurring(Str(EveryMinute)), Str(Wildcard), TRUE)}

Suspended == "at" \in DOMAIN last

AwaitTick ==
    /\ ~Suspended
    /\ Tick

\* lines 193-233: createTask before the append of the "created" event
createTaskArmed(S, body, rd, facility) ==
    [createTask(S, body, rd, facility) EXCEPT !.events = S.events, !.fired = <<>>]

\* POST /tasks up to the await inside appendEvents; the event of lines
\* 236-244 is built
CreateSuspends(F) ==
    \E body \in AwaitBodies, f \in F, g \in SchedLags :
        /\ ~Suspended
        /\ CreateStatus(body) = 201
        /\ Len(index) < MaxTasks
        /\ Install(createTaskArmed(Cur, body,
                                   [Reads(now) EXCEPT !.set = now + g, !.end = now + g],
                                   f))
        /\ last' = [op |-> "create", status |-> 0, at |-> 235,
                    evt |-> [id |-> uuid + 2, taskId |-> uuid + 1,
                             title |-> tasks'[uuid + 1].title, kind |-> "created",
                             occurredAt |-> toISOString(now + g),
                             nextRun |-> tasks'[uuid + 1].nextRun,
                             note |-> buildCreationNote(tasks'[uuid + 1])]]
        /\ Advance(g)
        /\ UNCHANGED restarts

\* appendEvents (lines 351-361) reads the log and writes it with the event
\* appended; the handler answers 201
CreateResumes ==
    /\ Suspended
    /\ last.at = 235
    /\ events' = appendEvents(events, <<last.evt>>)
    /\ allEvents' = Append(allEvents, last.evt)
    /\ last' = [op |-> "create", status |-> 201]
    /\ UNCHANGED <<now, uuid, tasks, index, lastRun, wakeVars, ticks, restarts>>

\* POST /tasks/run-due, lines 261-286: the cycle has cleared the pending
\* timestamp, passed the tasks that are not due and waits for the put of the
\* last-run marker of the first due task
CycleSuspends ==
    \E k \in 1..Len(index) :
        /\ ~Suspended
        /\ index[k] \in DOMAIN tasks
        /\ DueNow(index[k])
        /\ \A j \in 1..(k - 1) : index[j] \in DOMAIN tasks /\ ~DueNow(index[j])
        /\ pending' = Absent
        /\ lastFired' = IF Truthy(pending) THEN pending ELSE toISOString(now)
        /\ last' = [op |-> "run-due", status |-> 0, at |-> 286, id |-> index[k],
                    task |-> tasks[index[k]],
                    earliest |-> AlarmLoop([tasks |-> tasks, lastRun |-> lastRun,
                                            earliest |-> NoEarliest, fired |-> <<>>,
                                            uuid |-> uuid],
                                           SubSeq(index, 1, k - 1),
                                           now + TOLERANCE_MS, now).earliest,
                    rest |-> SubSeq(index, k + 1, Len(index)),
                    effectiveNow |-> now + TOLERANCE_MS]
        /\ UNCHANGED <<now, uuid, storageVars, durableAlarm, localTimers, microtasks,
                       ticks, restarts, allEvents>>

\* lines 286-337 of the waiting cycle: k holds its local variables, S is
\* the object as it is when the cycle goes on
alarmResumed(S, k, rd, facility) ==
    LET st == AlarmLoop(FireTask([tasks |-> [S.tasks EXCEPT ![k.id] = k.task],
                                  lastRun |-> S.lastRun, earliest |-> k.earliest,
                                  fired |-> <<>>, uuid |-> S.uuid],
                                 k.id, rd.loop),
                        k.rest, k.effectiveNow, rd.loop)
    IN  [tasks |-> st.tasks, index |-> S.index,
         events |-> appendEvents(S.events, st.fired),
         lastRun |-> st.lastRun, uuid |-> st.uuid,
         w |-> IF st.earliest # NoEarliest
               THEN scheduleAlarm(S.w, AlarmTarget(st.earliest, rd.end), rd.end,
                                  rd.set, facility)
               ELSE S.w,
         fired |-> st.fired]

CycleResumes(F) ==
    \E f \in F :
        /\ Suspended
        /\ last.at = 286
        /\ Install(alarmResumed(Cur, last, Reads(now), f))
        /\ last' = [op |-> "run-due", status |-> 200, again |-> FALSE, facility |-> f]
        /\ UNCHANGED <<now, ticks, restarts>>

\* a callback of the fallback runs alarm(); a handler that waits goes on
\* waiting
WakeCycle(op, w, F) ==
    \E f \in F :
        /\ Install(alarm([Cur EXCEPT !.w = w], Reads(now), f))
        /\ last' = IF Suspended THEN last
                   ELSE [op |-> op, status |-> 200, again |-> last.op \in CycleOps,
                         facility |-> f]
        /\ UNCHANGED <<now, ticks, restarts>>

AwaitTimerWake(F) ==
    \E i \in 1..Len(localTimers) :
        /\ now >= localTimers[i]
        /\ WakeCycle("fallback",
                     [Cur.w EXCEPT !.localTimers =
                         SubSeq(localTimers, 1, i - 1)
                             \o SubSeq(localTimers, i + 1, Len(localTimers))],
                     F)

AwaitMicrotaskWake(F) ==
    /\ microtasks > 0
    /\ WakeCycle("microtask", [Cur.w EXCEPT !.microtasks = microtasks - 1], F)

NextAwait ==
    \/ AwaitTick
    \/ CreateSuspends(NoSetAlarm)
    \/ CreateResumes
    \/ CycleSuspends
    \/ CycleResumes(NoSetAlarm)
    \/ AwaitTimerWake(NoSetAlarm)
    \/ AwaitMicrotaskWake(NoSetAlarm)

SpecAwait == Init /\ [][NextAwait]_vars

(* C34: a task without recurrence is handed at most one "fired" event to   *)
(* the log in its whole life, whatever the interleaving of creates, run-   *)
(* due cycles and the wakes of the fallback, also when a wake of the       *)
(* fallback starts while another handler waits for storage.                *)
C34_SingleRunFiresAtMostOnce ==
    \A id \in DOMAIN tasks :
        tasks[id].recurrence.isNull => Len(FiredOf(allEvents, id)) <= 1

(* C38: in the stored log the "created" event of a task stands before      *)
(* every "fired" event of that task, whatever the order of the arming of   *)
(* the wake in the create handler, the wake itself and the append of the   *)
(* "created" event.                                                        *)
C38_CreatedBeforeFired ==
    \A i, j \in 1..Len(events) :
        (/\ events[i].kind = "created"
         /\ events[j].kind = "fired"
         /\ events[i].taskId = events[j].taskId) => i < j

====
